---- MODULE Spec2Model ----
(***************************************************************************)
(* A model of the tree-walking evaluator of src/src/engine.rs: the scope,  *)
(* the function dispatch of call_fn_raw, the dot/index chain resolver and  *)
(* the expression and statement evaluators.  The evaluator is synchronous  *)
(* and recursive, so one call of Engine::eval_stmt is one step of the      *)
(* state machine and the evaluator itself is a family of recursive         *)
(* operators that thread the scope, an event log and a loop budget.        *)
(***************************************************************************)
EXTENDS Integers, Sequences, FiniteSets, TLC

VARIABLES
    scope,             \* the host's Scope: a sequence of bindings
    script_functions,  \* Engine::script_functions, sorted by (name, arity)
    ext_functions,     \* Engine::ext_functions: the registered FnSpec keys
    pc,                \* "idle" | "done" | "aborted" (a panic unwound the host)
    last               \* the last eval call: statement, scope before, result, log

vars == <<scope, script_functions, ext_functions, pc, last>>

(***************************************************************************)
(* Bounds of the exploration.                                              *)
(***************************************************************************)
MaxScope == 3      \* longest scope the host lets grow at top level
MaxFuel  == 6      \* loop iterations and script calls explored per eval

(***************************************************************************)
(* Dynamic values: a runtime type identity and a payload.                  *)
(***************************************************************************)
VInt(i)   == [t |-> "int", v |-> i]
VBool(b)  == [t |-> "bool", v |-> b]
VChar(c)  == [t |-> "char", v |-> c]
VStr(cs)  == [t |-> "string", v |-> cs]      \* cs: the sequence of characters
VArr(xs)  == [t |-> "array", v |-> xs]
\* a host-registered type with the properties p (INT), o (the same host type),
\* a (array) and s (string)
VObj(p, o, a, s) == [t |-> "obj", v |-> [p |-> p, o |-> o, a |-> a, s |-> s]]
VUnit     == [t |-> "unit", v |-> 0]

TypeId(v) == v.t

\* core::any::type_name of the payload
TypeName(v) ==
    CASE v.t = "int"    -> "i64"
      [] v.t = "bool"   -> "bool"
      [] v.t = "char"   -> "char"
      [] v.t = "string" -> "alloc::string::String"
      [] v.t = "array"  -> "alloc::vec::Vec<Dynamic>"
      [] v.t = "obj"    -> "TestStruct"
      [] OTHER          -> "()"

\* Engine::new installs the pretty names; map_type_name falls back to the raw name
type_names == [n \in {"alloc::vec::Vec<Dynamic>", "alloc::string::String"} |->
                 IF n = "alloc::string::String" THEN "string" ELSE "array"]

map_type_name(name) ==
    IF name \in DOMAIN type_names THEN type_names[name] ELSE name

(***************************************************************************)
(* Results: Ok(v) or Err(kind, payload).  Return and LoopBreak travel on   *)
(* the error channel.  Panic is a Rust panic: it unwinds through every     *)
(* frame of the evaluator.  Diverge marks an evaluation that ran out of    *)
(* the explored loop budget; such a call has not returned.                 *)
(***************************************************************************)
Ok(v)     == [ok |-> TRUE, e |-> "", v |-> v]
Err(e, a) == [ok |-> FALSE, e |-> e, v |-> a]

Aborted(r) == ~r.ok /\ r.e \in {"Panic", "Diverge"}

None    == <<>>
Some(x) == <<x>>
IsSome(o) == Len(o) = 1

(***************************************************************************)
(* Scope (crate::scope is not part of src/; modelled from the             *)
(* specification's sections 3 and 4.1).                                    *)
(***************************************************************************)
Binding(name, kind, value) == [name |-> name, kind |-> kind, value |-> value]

ScopeLen(sc) == Len(sc)

ScopePush(sc, name, kind, value) == Append(sc, Binding(name, kind, value))

ScopePop(sc) == SubSeq(sc, 1, Len(sc) - 1)

ScopeRewind(sc, n) == IF n < Len(sc) THEN SubSeq(sc, 1, n) ELSE sc

\* Scope::get: the index (0-based, -1 when absent) of the most recent binding of name
ScopeFind(sc, name) ==
    LET hits == {i \in 1..Len(sc) : sc[i].name = name}
    IN  IF hits = {} THEN -1
        ELSE (CHOOSE i \in hits : \A j \in hits : j <= i) - 1

\* *scope.get_mut(name, index) = value
ScopeSet(sc, index, value) == [sc EXCEPT ![index + 1].value = value]

(***************************************************************************)
(* The AST consumed by the evaluator (crate::parser::{Expr, Stmt, FnDef}). *)
(* Function names are a pair (prefix, identifier): format!("{}{}",         *)
(* FUNC_GETTER, id) is <<"get$", id>> and a plain name is <<"", id>>.      *)
(***************************************************************************)
FUNC_GETTER == "get$"
FUNC_SETTER == "set$"
KEYWORD_PRINT == <<"", "print">>
KEYWORD_DEBUG == <<"", "debug">>
KEYWORD_DUMP_AST == <<"", "dump_ast">>
KEYWORD_TYPE_OF == <<"", "type_of">>

Fn(id) == <<"", id>>
starts_with(fn_name, prefix) == fn_name[1] = prefix

IntC(i)        == [k |-> "IntegerConstant", i |-> i]
StrC(cs)       == [k |-> "StringConstant", s |-> cs]
CharC(c)       == [k |-> "CharConstant", c |-> c]
TrueE          == [k |-> "True"]
FalseE         == [k |-> "False"]
UnitE          == [k |-> "Unit"]
Var(id)        == [k |-> "Variable", id |-> id]
Prop(id)       == [k |-> "Property", id |-> id]
Index(l, i)    == [k |-> "Index", lhs |-> l, idx |-> i]
Dot(l, r)      == [k |-> "Dot", lhs |-> l, rhs |-> r]
Assign(l, r)   == [k |-> "Assignment", lhs |-> l, rhs |-> r]
Call(id, as)   == [k |-> "FunctionCall", name |-> Fn(id), args |-> as, def |-> None]
CallD(id, as, d) == [k |-> "FunctionCall", name |-> Fn(id), args |-> as, def |-> Some(d)]
And(l, r)      == [k |-> "And", lhs |-> l, rhs |-> r]
Or(l, r)       == [k |-> "Or", lhs |-> l, rhs |-> r]
StmtE(s)       == [k |-> "Stmt", stmt |-> s]
ArrayE(items)  == [k |-> "Array", items |-> items]

Noop           == [k |-> "Noop"]
ExprS(e)       == [k |-> "Expr", expr |-> e]
Block(ss)      == [k |-> "Block", block |-> ss]
If(g, t)       == [k |-> "IfElse", guard |-> g, then |-> t, else |-> None]
IfElse(g, t, e) == [k |-> "IfElse", guard |-> g, then |-> t, else |-> Some(e)]
While(g, b)    == [k |-> "While", guard |-> g, body |-> b]
Loop(b)        == [k |-> "Loop", body |-> b]
For(n, e, b)   == [k |-> "For", name |-> n, expr |-> e, body |-> b]
Break          == [k |-> "Break"]
Return         == [k |-> "ReturnWithVal", val |-> None, rt |-> "Return"]
ReturnV(e)     == [k |-> "ReturnWithVal", val |-> Some(e), rt |-> "Return"]
Throw          == [k |-> "ReturnWithVal", val |-> None, rt |-> "Exception"]
ThrowV(e)      == [k |-> "ReturnWithVal", val |-> Some(e), rt |-> "Exception"]
Let(n, e)      == [k |-> "Let", name |-> n, init |-> Some(e)]
LetU(n)        == [k |-> "Let", name |-> n, init |-> None]
Const(n, e)    == [k |-> "Const", name |-> n, init |-> e]

FnDef(id, params, body) == [name |-> Fn(id), params |-> params, body |-> body]

\* Expr::is_constant: literals (and arrays of literals)
RECURSIVE is_constant(_)
is_constant(e) ==
    \/ e.k \in {"IntegerConstant", "StringConstant", "CharConstant",
                "True", "False", "Unit"}
    \/ /\ e.k = "Array"
       /\ \A i \in 1..Len(e.items) : is_constant(e.items[i])

(***************************************************************************)
(* The state threaded through one evaluation: the scope being evaluated    *)
(* against, the log of observable events, and the remaining loop budget.   *)
(***************************************************************************)
Machine(sc, tr, fuel) == [scope |-> sc, trace |-> tr, fuel |-> fuel]

Log(m, event) == [m EXCEPT !.trace = Append(m.trace, event)]

(***************************************************************************)
(* Host functions.  The evaluator only sees Box<FnAny>: a callable taking  *)
(* mutable borrows of the arguments and returning a value or an error.     *)
(* The functions below are the ones the host registers in this model:      *)
(* faithful getters and setters of the host type, two methods that mutate  *)
(* their receiver (boom fails after mutating), and a few plain functions.  *)
(* HostApply gives the arguments as the callable leaves them, and its      *)
(* result.                                                                 *)
(***************************************************************************)
PropType == [p |-> "int", o |-> "obj", a |-> "array", s |-> "string"]
PropIds == DOMAIN PropType

GetterKeys == {<<<<FUNC_GETTER, id>>, <<"obj">>>> : id \in PropIds}
SetterKeys == {<<<<FUNC_SETTER, id>>, <<"obj", PropType[id]>>>> : id \in PropIds}

CoreKeys ==
    GetterKeys \cup SetterKeys \cup
    { <<Fn("new_ts"), <<>>>>,
      <<Fn("touch"), <<"obj">>>>,
      <<Fn("boom"), <<"obj">>>>,
      <<Fn("put"), <<"obj", "int">>>>,
      <<Fn("push"), <<"array", "int">>>>,
      <<Fn("+"), <<"int", "int">>>>,
      <<Fn("<"), <<"int", "int">>>>,
      <<Fn("=="), <<"int", "int">>>>,
      <<Fn("g"), <<"int">>>>,
      <<Fn("g"), <<"bool">>>>,
      <<Fn("g"), <<"int", "int">>>>,
      <<KEYWORD_PRINT, <<"string">>>>,
      <<KEYWORD_PRINT, <<"int">>>> }

\* host functions the host may or may not have registered
OptionalKeys == { <<Fn("f"), <<"int">>>> }

InnerObj == VObj(VInt(0), VUnit, VArr(<<>>), VStr(<<>>))
NewObj == VObj(VInt(0), InnerObj, VArr(<<VInt(1), VInt(2)>>), VStr(<<"a", "b">>))

HostApply(fn_name, args) ==
    CASE fn_name[1] = FUNC_GETTER ->
           [args |-> args, r |-> Ok(args[1].v[fn_name[2]])]
      [] fn_name[1] = FUNC_SETTER ->
           [args |-> [args EXCEPT ![1].v[fn_name[2]] = args[2]], r |-> Ok(VUnit)]
      [] fn_name = Fn("new_ts") ->
           [args |-> args, r |-> Ok(NewObj)]
      [] fn_name = Fn("touch") ->
           [args |-> [args EXCEPT ![1].v.p = VInt(7)], r |-> Ok(VUnit)]
      [] fn_name = Fn("boom") ->
           [args |-> [args EXCEPT ![1].v.p = VInt(9)], r |-> Err("ErrorRuntime", "boom")]
      [] fn_name = Fn("put") ->
           [args |-> [args EXCEPT ![1].v.p = args[2]], r |-> Ok(args[2])]
      [] fn_name = Fn("push") ->
           [args |-> [args EXCEPT ![1].v = Append(@, args[2])], r |-> Ok(VUnit)]
      [] fn_name = Fn("+") ->
           [args |-> args, r |-> Ok(VInt(args[1].v + args[2].v))]
      [] fn_name = Fn("<") ->
           [args |-> args, r |-> Ok(VBool(args[1].v < args[2].v))]
      [] fn_name = Fn("==") ->
           [args |-> args, r |-> Ok(VBool(args[1].v = args[2].v))]
      [] fn_name = Fn("f") ->
           [args |-> args, r |-> Ok(VInt(100))]
      [] fn_name = Fn("g") ->
           [args |-> args, r |-> Ok(VInt(200 + Len(args)))]
      [] fn_name = KEYWORD_PRINT /\ args[1].t = "string" ->
           [args |-> args, r |-> Ok(args[1])]
      [] OTHER ->
           [args |-> args, r |-> Ok(args[1])]   \* print(INT): a result that is no string

\* the FnSpec of a call: the name and the type-ids of the actual arguments
FnSpec(fn_name, args) == <<fn_name, [i \in 1..Len(args) |-> TypeId(args[i])]>>

(***************************************************************************)
(* Script functions: FnDef::compare orders by name, then by arity          *)
(* (crate::parser; the names are ordered as strings).                      *)
(***************************************************************************)
\* every function name of the model, in the order of str::cmp
NameOrder ==
    << <<"", "+">>, <<"", "<">>, <<"", "==">>, <<"", "boom">>, <<"", "debug">>,
       <<"", "dump_ast">>, <<"", "f">>, <<"", "g">>,
       <<"get$", "a">>, <<"get$", "o">>, <<"get$", "p">>, <<"get$", "s">>, <<"get$", "z">>,
       <<"", "h">>, <<"", "new_ts">>, <<"", "print">>, <<"", "push">>, <<"", "put">>, <<"", "r">>,
       <<"set$", "a">>, <<"set$", "o">>, <<"set$", "p">>, <<"set$", "s">>, <<"set$", "z">>,
       <<"", "touch">>, <<"", "type_of">> >>
NameRank(fn_name) == CHOOSE i \in 1..Len(NameOrder) : NameOrder[i] = fn_name

\* f.compare(name, params_len): "Less" | "Equal" | "Greater"
compare(f, fn_name, params_len) ==
    IF f.name # fn_name
    THEN IF NameRank(f.name) < NameRank(fn_name) THEN "Less" ELSE "Greater"
    ELSE IF Len(f.params) < params_len THEN "Less"
         ELSE IF Len(f.params) > params_len THEN "Greater"
         ELSE "Equal"

\* slice::binary_search_by over script_functions: the 0-based index found, or -1
RECURSIVE binary_search(_, _, _, _, _)
binary_search(fns, fn_name, params_len, left, right) ==
    IF left >= right THEN -1
    ELSE LET mid == left + ((right - left) \div 2)
             cmp == compare(fns[mid + 1], fn_name, params_len)
         IN  CASE cmp = "Equal"   -> mid
               [] cmp = "Less"    -> binary_search(fns, fn_name, params_len, mid + 1, right)
               [] cmp = "Greater" -> binary_search(fns, fn_name, params_len, left, mid)

find_script_function(fns, fn_name, params_len) ==
    binary_search(fns, fn_name, params_len, 0, Len(fns))

\* scope.extend(params zip args) on a fresh Scope
RECURSIVE extend(_, _, _)
extend(sc, params, args) ==
    IF params = <<>> \/ args = <<>> THEN sc
    ELSE extend(ScopePush(sc, Head(params), "Normal", Head(args)), Tail(params), Tail(args))

(***************************************************************************)
(* Indexing of arrays and strings.  Indices are 0-based as in the source;  *)
(* the sequences of the model are 1-based.                                 *)
(***************************************************************************)
\* `idx as usize` of an INT: a negative INT wraps to 2^64 + idx, an index beyond
\* every container.  TLC's integers are 32 bits wide, so the wrap is
\* modelled at that width; only "beyond every length" is read from the result.
UsizeWrap == 2147483647
AsUsize(idx) == IF idx >= 0 THEN idx ELSE idx + UsizeWrap

Panic(msg) == Err("Panic", msg)

\* Engine::search_scope with the identity map
search_scope(sc, id) ==
    LET i == ScopeFind(sc, id)
    IN  IF i < 0 THEN Err("ErrorVariableNotFound", id)
        ELSE Ok([idx |-> i, var_type |-> sc[i + 1].kind, val |-> sc[i + 1].value])

\* a bounds check that is off by one at the upper end
get_indexed_value_short(val, idx) ==
    IF val.t = "array" THEN
        IF idx >= 0 /\ idx < Len(val.v) - 1
        THEN Ok(<<val.v[idx + 1], "Array">>)
        ELSE Err("ErrorArrayBounds", <<Len(val.v), idx>>)
    ELSE IF val.t = "string" THEN
        IF idx >= 0 /\ idx < Len(val.v) - 1
        THEN Ok(<<VChar(val.v[idx + 1]), "String">>)
        ELSE Err("ErrorStringBounds", <<Len(val.v), idx>>)
    ELSE Err("ErrorIndexingType", map_type_name(TypeName(val)))

\* Ok(<<element, source type>>) or a bounds / type error
get_indexed_value(val, idx) ==
    IF val.t = "array" THEN
        IF idx >= 0 /\ idx < Len(val.v)
        THEN Ok(<<val.v[idx + 1], "Array">>)
        ELSE Err("ErrorArrayBounds", <<Len(val.v), idx>>)
    ELSE IF val.t = "string" THEN
        IF idx >= 0 /\ idx < Len(val.v)
        THEN Ok(<<VChar(val.v[idx + 1]), "String">>)
        ELSE Err("ErrorStringBounds", <<Len(val.v), idx>>)
    ELSE Err("ErrorIndexingType", map_type_name(TypeName(val)))

\* Ok(the characters after the replacement) or the panic of `expect`
str_replace_char(s, idx, new_ch) ==
    IF idx >= Len(s) THEN Panic("string index out of bounds")
    ELSE IF s[idx + 1] # new_ch THEN Ok([s EXCEPT ![idx + 1] = new_ch])
    ELSE Ok(s)

\* an update that counts the index of an array from the wrong end
update_indexed_var_from_end(src_type, sc, id, src_idx, idx, new_val) ==
    CASE src_type = "Array" ->
           IF src_idx >= Len(sc) \/ sc[src_idx + 1].value.t # "array"
           THEN [scope |-> sc, r |-> Panic("get_mut_by_type")]
           ELSE IF idx >= Len(sc[src_idx + 1].value.v)
           THEN [scope |-> sc, r |-> Panic("index out of bounds")]
           ELSE [scope |-> [sc EXCEPT ![src_idx + 1].value.v[Len(sc[src_idx + 1].value.v) - idx] = new_val],
                 r |-> Ok(VUnit)]
      [] src_type = "String" ->
           IF src_idx >= Len(sc) \/ sc[src_idx + 1].value.t # "string"
           THEN [scope |-> sc, r |-> Panic("get_mut_by_type")]
           ELSE IF new_val.t # "char"
           THEN [scope |-> sc, r |-> Err("ErrorCharMismatch", "")]
           ELSE LET rep == str_replace_char(sc[src_idx + 1].value.v, idx, new_val.v)
                IN  IF ~rep.ok THEN [scope |-> sc, r |-> rep]
                    ELSE [scope |-> [sc EXCEPT ![src_idx + 1].value.v = rep.v],
                          r |-> Ok(VUnit)]
      [] OTHER ->
           [scope |-> sc, r |-> Panic("expression cannot be indexed for update")]

\* the scope after the update, and Ok(unit) or the error
update_indexed_var_in_scope(src_type, sc, id, src_idx, idx, new_val) ==
    CASE src_type = "Array" ->
           IF src_idx >= Len(sc) \/ sc[src_idx + 1].value.t # "array"
           THEN [scope |-> sc, r |-> Panic("get_mut_by_type")]
           ELSE IF idx >= Len(sc[src_idx + 1].value.v)
           THEN [scope |-> sc, r |-> Panic("index out of bounds")]
           ELSE [scope |-> [sc EXCEPT ![src_idx + 1].value.v[idx + 1] = new_val],
                 r |-> Ok(VUnit)]
      [] src_type = "String" ->
           IF src_idx >= Len(sc) \/ sc[src_idx + 1].value.t # "string"
           THEN [scope |-> sc, r |-> Panic("get_mut_by_type")]
           ELSE IF new_val.t # "char"
           THEN [scope |-> sc, r |-> Err("ErrorCharMismatch", "")]
           ELSE LET rep == str_replace_char(sc[src_idx + 1].value.v, idx, new_val.v)
                IN  IF ~rep.ok THEN [scope |-> sc, r |-> rep]
                    ELSE [scope |-> [sc EXCEPT ![src_idx + 1].value.v = rep.v],
                          r |-> Ok(VUnit)]
      [] OTHER ->
           [scope |-> sc, r |-> Panic("expression cannot be indexed for update")]

\* an update that looks for the character to replace before it looks at the value
update_indexed_value_index_first(target, idx, new_val) ==
    IF target.t = "array" THEN
        IF idx >= Len(target.v) THEN Panic("index out of bounds")
        ELSE Ok([target EXCEPT !.v[idx + 1] = new_val])
    ELSE IF target.t = "string" THEN
        IF idx >= Len(target.v) THEN Panic("string index out of bounds")
        ELSE IF new_val.t # "char" THEN Err("ErrorCharMismatch", "")
        ELSE LET rep == str_replace_char(target.v, idx, new_val.v)
             IN  IF ~rep.ok THEN rep ELSE Ok([target EXCEPT !.v = rep.v])
    ELSE Panic("array or string source type expected for indexing")

\* Ok(the updated container) or the error
update_indexed_value(target, idx, new_val) ==
    IF target.t = "array" THEN
        IF idx >= Len(target.v) THEN Panic("index out of bounds")
        ELSE Ok([target EXCEPT !.v[idx + 1] = new_val])
    ELSE IF target.t = "string" THEN
        IF new_val.t # "char" THEN Err("ErrorCharMismatch", "")
        ELSE LET rep == str_replace_char(target.v, idx, new_val.v)
             IN  IF ~rep.ok THEN rep ELSE Ok([target EXCEPT !.v = rep.v])
    ELSE Panic("array or string source type expected for indexing")

\* Engine::type_iterators: the registered factory of a type-id yields these values
type_iterators == {"array"}
iter_fn(arr) == arr.v

(***************************************************************************)
(* The evaluator.  Every operator takes the threaded state m and returns   *)
(* a record with the state after (m) and the result (r); the chain helpers *)
(* also return the receiver as the call left it (this), call_fn_raw the    *)
(* arguments as the callable left them (args).                             *)
(***************************************************************************)
\* The evaluator's functions call one another recursively; every such call goes
\* through the one recursive operator Invoke, which dispatches on the callee's name.
RECURSIVE Invoke(_, _)

eval_expr(m, e)                  == Invoke("eval_expr", <<m, e>>)
eval_stmt(m, s)                  == Invoke("eval_stmt", <<m, s>>)
eval_list(m, exprs, acc)         == Invoke("eval_list", <<m, exprs, acc>>)
eval_block_stmts(m, stmts, res)  == Invoke("eval_block_stmts", <<m, stmts, res>>)
for_iter(m, name, idx, items, body) == Invoke("for_iter", <<m, name, idx, items, body>>)
call_fn_raw(m, fn_name, args, def_val) == Invoke("call_fn_raw", <<m, fn_name, args, def_val>>)
get_dot_val_helper(m, this, dot_rhs) == Invoke("get_dot_val_helper", <<m, this, dot_rhs>>)
set_dot_val_helper(m, this, rhs, v) == Invoke("set_dot_val_helper", <<m, this, rhs, v>>)

\* a call that hands the Return signal of the body on to the caller
call_script_fn_keeps_return(m, n, args) ==
    IF m.fuel = 0 THEN [m |-> m, args |-> args, r |-> Err("Diverge", "")]
    ELSE
    LET fn_def == script_functions[n + 1]
        sc0    == extend(<<>>, fn_def.params, args)
        m0     == Machine(sc0,
                          Append(m.trace, [ev |-> "script", fn |-> fn_def.name,
                                           def |-> fn_def, scope |-> sc0]),
                          m.fuel - 1)
        res    == eval_stmt(m0, fn_def.body)
    IN  [m    |-> Machine(m.scope, res.m.trace, res.m.fuel),
         args |-> args,
         r    |-> res.r]

\* a call that lets the body see the scope of the caller under its parameters
call_script_fn_sees_caller(m, n, args) ==
    IF m.fuel = 0 THEN [m |-> m, args |-> args, r |-> Err("Diverge", "")]
    ELSE
    LET fn_def == script_functions[n + 1]
        sc0    == extend(m.scope, fn_def.params, args)
        m0     == Machine(sc0,
                          Append(m.trace, [ev |-> "script", fn |-> fn_def.name,
                                           def |-> fn_def, scope |-> sc0]),
                          m.fuel - 1)
        res    == eval_stmt(m0, fn_def.body)
    IN  [m    |-> Machine(m.scope, res.m.trace, res.m.fuel),
         args |-> args,
         r    |-> IF ~res.r.ok /\ res.r.e = "Return" THEN Ok(res.r.v) ELSE res.r]

\* lines 168-192: run the script function found at index n in a fresh scope
call_script_fn(m, n, args) ==
    IF m.fuel = 0 THEN [m |-> m, args |-> args, r |-> Err("Diverge", "")]
    ELSE
    LET fn_def == script_functions[n + 1]
        sc0    == extend(<<>>, fn_def.params, args)
        m0     == Machine(sc0,
                          Append(m.trace, [ev |-> "script", fn |-> fn_def.name,
                                           def |-> fn_def, scope |-> sc0]),
                          m.fuel - 1)
        res    == eval_stmt(m0, fn_def.body)
    IN  [m    |-> Machine(m.scope, res.m.trace, res.m.fuel),
         args |-> args,
         r    |-> IF ~res.r.ok /\ res.r.e = "Return" THEN Ok(res.r.v) ELSE res.r]

\* lines 199-217: run the registered function; print and debug go to the sinks
call_ext_fn(m, fn_name, args) ==
    LET h  == HostApply(fn_name, args)
        m1 == Log(m, [ev |-> "host", fn |-> fn_name, args |-> args])
    IN  IF ~h.r.ok THEN [m |-> m1, args |-> h.args, r |-> h.r]
        ELSE IF fn_name \notin {KEYWORD_PRINT, KEYWORD_DEBUG}
        THEN [m |-> m1, args |-> h.args, r |-> h.r]
        ELSE LET val == IF h.r.v.t = "string" THEN h.r.v.v
                        ELSE <<"error: not a string">>
             IN  [m    |-> Log(m1, [ev |-> "sink", fn |-> fn_name, text |-> val]),
                  args |-> h.args,
                  r    |-> Ok(VUnit)]

\* fallbacks that hand out the default value before looking at the name
call_fallback_default_first(fn_name, args, def_val) ==
    IF IsSome(def_val)
    THEN Ok(def_val[1])
    ELSE IF fn_name = KEYWORD_TYPE_OF /\ Len(args) = 1
    THEN Ok(VStr(<<map_type_name(TypeName(args[1]))>>))
    ELSE IF starts_with(fn_name, FUNC_GETTER)
    THEN Err("ErrorDotExpr", <<"unknown or write-only", fn_name[2]>>)
    ELSE IF starts_with(fn_name, FUNC_SETTER)
    THEN Err("ErrorDotExpr", <<"unknown or read-only", fn_name[2]>>)
    ELSE Err("ErrorFunctionNotFound",
             <<fn_name, [i \in 1..Len(args) |-> map_type_name(TypeName(args[i]))]>>)

\* lines 219-264: neither a script nor a host function matched
call_fallback(fn_name, args, def_val) ==
    IF fn_name = KEYWORD_TYPE_OF /\ Len(args) = 1
    THEN Ok(VStr(<<map_type_name(TypeName(args[1]))>>))
    ELSE IF starts_with(fn_name, FUNC_GETTER)
    THEN Err("ErrorDotExpr", <<"unknown or write-only", fn_name[2]>>)
    ELSE IF starts_with(fn_name, FUNC_SETTER)
    THEN Err("ErrorDotExpr", <<"unknown or read-only", fn_name[2]>>)
    ELSE IF IsSome(def_val)
    THEN Ok(def_val[1])
    ELSE Err("ErrorFunctionNotFound",
             <<fn_name, [i \in 1..Len(args) |-> map_type_name(TypeName(args[i]))]>>)

\* a dispatch that looks in the host table first
call_fn_raw_host_first(m, fn_name, args, def_val) ==
    LET n == find_script_function(script_functions, fn_name, Len(args))
    IN  IF FnSpec(fn_name, args) \in ext_functions
        THEN call_ext_fn(m, fn_name, args)
        ELSE IF n >= 0 THEN call_script_fn(m, n, args)
        ELSE [m |-> m, args |-> args, r |-> call_fallback(fn_name, args, def_val)]

call_fn_raw_body(m, fn_name, args, def_val) ==
    LET n == find_script_function(script_functions, fn_name, Len(args))
    IN  IF n >= 0 THEN call_script_fn(m, n, args)
        ELSE IF FnSpec(fn_name, args) \in ext_functions
        THEN call_ext_fn(m, fn_name, args)
        ELSE [m |-> m, args |-> args, r |-> call_fallback(fn_name, args, def_val)]

\* lines 452-463: Ok(the INT) or ErrorIndexExpr
eval_index_value(m, idx_expr) ==
    LET e == eval_expr(m, idx_expr)
    IN  IF ~e.r.ok THEN e
        ELSE IF e.r.v.t = "int" THEN [m |-> e.m, r |-> Ok(e.r.v.v)]
        ELSE [m |-> e.m, r |-> Err("ErrorIndexExpr", "")]

\* lines 299-319 and 338-358: the value that `xxx.idx_lhs` is indexed into
dot_index_base(m, this, idx_lhs) ==
    CASE idx_lhs.k = "Property" ->
           LET c == call_fn_raw(m, <<FUNC_GETTER, idx_lhs.id>>, <<this>>, None)
           IN  [m |-> c.m, this |-> c.args[1], r |-> c.r]
      [] idx_lhs.k = "Index" -> get_dot_val_helper(m, this, idx_lhs)
      [] OTHER -> [m |-> m, this |-> this, r |-> Err("ErrorDotExpr", <<"", "">>)]

\* lines 296-324 / 335-363: Ok(the element of xxx.idx_lhs[idx_expr])
dot_index_get(m, this, ix) ==
    LET b == dot_index_base(m, this, ix.lhs)
    IN  IF ~b.r.ok THEN b
        ELSE LET i == eval_index_value(b.m, ix.idx)
             IN  IF ~i.r.ok THEN [m |-> i.m, this |-> b.this, r |-> i.r]
                 ELSE LET g == get_indexed_value(b.r.v, i.r.v)
                      IN  [m |-> i.m, this |-> b.this,
                           r |-> IF g.ok THEN Ok(g.v[1]) ELSE g]

get_dot_val_helper_body(m, this, dot_rhs) ==
    CASE dot_rhs.k = "FunctionCall" ->
           LET a == eval_list(m, dot_rhs.args, <<>>)
           IN  IF ~a.r.ok THEN [m |-> a.m, this |-> this, r |-> a.r]
               ELSE LET c == call_fn_raw(a.m, dot_rhs.name, <<this>> \o a.r.v, dot_rhs.def)
                    IN  [m |-> c.m, this |-> c.args[1], r |-> c.r]
      [] dot_rhs.k = "Property" ->
           LET c == call_fn_raw(m, <<FUNC_GETTER, dot_rhs.id>>, <<this>>, None)
           IN  [m |-> c.m, this |-> c.args[1], r |-> c.r]
      [] dot_rhs.k = "Index" -> dot_index_get(m, this, dot_rhs)
      [] dot_rhs.k = "Dot" ->
           IF dot_rhs.lhs.k = "Property" THEN
               LET c == call_fn_raw(m, <<FUNC_GETTER, dot_rhs.lhs.id>>, <<this>>, None)
               IN  IF ~c.r.ok THEN [m |-> c.m, this |-> c.args[1], r |-> c.r]
                   ELSE LET h == get_dot_val_helper(c.m, c.r.v, dot_rhs.rhs)
                        IN  [m |-> h.m, this |-> c.args[1], r |-> h.r]
           ELSE IF dot_rhs.lhs.k = "Index" THEN
               LET g == dot_index_get(m, this, dot_rhs.lhs)
               IN  IF ~g.r.ok THEN g
                   ELSE LET h == get_dot_val_helper(g.m, g.r.v, dot_rhs.rhs)
                        IN  [m |-> h.m, this |-> g.this, r |-> h.r]
           ELSE [m |-> m, this |-> this, r |-> Err("ErrorDotExpr", <<"", "">>)]
      [] OTHER -> [m |-> m, this |-> this, r |-> Err("ErrorDotExpr", <<"", "">>)]

ForAssignment(m, this) ==
    [m |-> m, this |-> this, r |-> Err("ErrorDotExpr", <<"for assignment", "">>)]

\* lines 642-646: xxx.id = new_val
set_property(m, this, id, new_val) ==
    LET c == call_fn_raw(m, <<FUNC_SETTER, id>>, <<this, new_val>>, None)
    IN  [m |-> c.m, this |-> c.args[1], r |-> c.r]

\* lines 653-665: xxx.id[idx_expr] = new_val
set_property_index(m, this, id, idx_expr, new_val) ==
    LET g == call_fn_raw(m, <<FUNC_GETTER, id>>, <<this>>, None)
    IN  IF ~g.r.ok THEN [m |-> g.m, this |-> g.args[1], r |-> g.r]
        ELSE
        LET i == eval_index_value(g.m, idx_expr)
        IN  IF ~i.r.ok THEN [m |-> i.m, this |-> g.args[1], r |-> i.r]
            ELSE
            LET u == update_indexed_value(g.r.v, AsUsize(i.r.v), new_val)
            IN  IF ~u.ok THEN [m |-> i.m, this |-> g.args[1], r |-> u]
                ELSE set_property(i.m, g.args[1], id, u.v)

\* a nested assignment that does not hand tmp back to the setter of id
set_property_dot_no_setter(m, this, id, rhs, new_val) ==
    LET g == call_fn_raw(m, <<FUNC_GETTER, id>>, <<this>>, None)
    IN  IF ~g.r.ok THEN [m |-> g.m, this |-> g.args[1], r |-> g.r]
        ELSE
        LET h == set_dot_val_helper(g.m, g.r.v, rhs, new_val)
        IN  [m |-> h.m, this |-> g.args[1], r |-> h.r]

\* lines 677-690: xxx.id.rhs = new_val
set_property_dot(m, this, id, rhs, new_val) ==
    LET g == call_fn_raw(m, <<FUNC_GETTER, id>>, <<this>>, None)
    IN  IF ~g.r.ok THEN [m |-> g.m, this |-> g.args[1], r |-> g.r]
        ELSE
        LET h == set_dot_val_helper(g.m, g.r.v, rhs, new_val)
        IN  IF ~h.r.ok THEN [m |-> h.m, this |-> g.args[1], r |-> h.r]
            ELSE set_property(h.m, g.args[1], id, h.this)

\* lines 697-727: xxx.id[idx_expr].rhs = new_val
set_property_index_dot(m, this, id, idx_expr, rhs, new_val) ==
    LET g == call_fn_raw(m, <<FUNC_GETTER, id>>, <<this>>, None)
    IN  IF ~g.r.ok THEN [m |-> g.m, this |-> g.args[1], r |-> g.r]
        ELSE
        LET i == eval_index_value(g.m, idx_expr)
        IN  IF ~i.r.ok THEN [m |-> i.m, this |-> g.args[1], r |-> i.r]
            ELSE
            LET t == get_indexed_value(g.r.v, i.r.v)
            IN  IF ~t.ok THEN [m |-> i.m, this |-> g.args[1], r |-> t]
                ELSE
                LET h == set_dot_val_helper(i.m, t.v[1], rhs, new_val)
                IN  IF ~h.r.ok THEN [m |-> h.m, this |-> g.args[1], r |-> h.r]
                    ELSE
                    LET u == update_indexed_value(g.r.v, AsUsize(i.r.v), h.this)
                    IN  IF ~u.ok THEN [m |-> h.m, this |-> g.args[1], r |-> u]
                        ELSE set_property(h.m, g.args[1], id, u.v)

\* a setter chain that lets the shapes it does not know pass as done
set_dot_val_helper_any_shape(m, this, dot_rhs, new_val) ==
    CASE dot_rhs.k = "Property" -> set_property(m, this, dot_rhs.id, new_val)
      [] dot_rhs.k = "Index" /\ dot_rhs.lhs.k = "Property" ->
           set_property_index(m, this, dot_rhs.lhs.id, dot_rhs.idx, new_val)
      [] dot_rhs.k = "Dot" /\ dot_rhs.lhs.k = "Property" ->
           set_property_dot(m, this, dot_rhs.lhs.id, dot_rhs.rhs, new_val)
      [] OTHER -> [m |-> m, this |-> this, r |-> Ok(VUnit)]

set_dot_val_helper_body(m, this, dot_rhs, new_val) ==
    CASE dot_rhs.k = "Property" -> set_property(m, this, dot_rhs.id, new_val)
      [] dot_rhs.k = "Index" ->
           IF dot_rhs.lhs.k = "Property"
           THEN set_property_index(m, this, dot_rhs.lhs.id, dot_rhs.idx, new_val)
           ELSE ForAssignment(m, this)
      [] dot_rhs.k = "Dot" ->
           IF dot_rhs.lhs.k = "Property"
           THEN set_property_dot(m, this, dot_rhs.lhs.id, dot_rhs.rhs, new_val)
           ELSE IF dot_rhs.lhs.k = "Index" THEN
               IF dot_rhs.lhs.lhs.k = "Property"
               THEN set_property_index_dot(m, this, dot_rhs.lhs.lhs.id,
                                           dot_rhs.lhs.idx, dot_rhs.rhs, new_val)
               ELSE ForAssignment(m, this)
           ELSE ForAssignment(m, this)
      [] OTHER -> ForAssignment(m, this)

\* *scope.get_mut(id, index) = value
scope_write(m, index, value) ==
    IF index >= Len(m.scope)
    THEN [m |-> m, r |-> Panic("invalid index in Scope")]
    ELSE [m |-> Log([m EXCEPT !.scope = ScopeSet(m.scope, index, value)],
                    [ev |-> "write", idx |-> index, value |-> value]),
          r |-> Ok(VUnit)]

\* lines 514-557: Ok([src_type, src, idx, val]); the index is evaluated first
eval_index_expr(m, lhs, idx_expr) ==
    LET i == eval_index_value(m, idx_expr)
    IN  IF ~i.r.ok THEN i
        ELSE IF lhs.k = "Variable" THEN
            LET s == search_scope(i.m.scope, lhs.id)
            IN  IF ~s.ok THEN [m |-> i.m, r |-> s]
                ELSE LET g == get_indexed_value(s.v.val, i.r.v)
                     IN  IF ~g.ok THEN [m |-> i.m, r |-> g]
                         ELSE [m |-> i.m,
                               r |-> Ok([src_type |-> g.v[2],
                                         src |-> Some([id |-> lhs.id,
                                                       var_type |-> s.v.var_type,
                                                       src_idx |-> s.v.idx]),
                                         idx |-> AsUsize(i.r.v),
                                         val |-> g.v[1]])]
        ELSE
            LET e == eval_expr(i.m, lhs)
            IN  IF ~e.r.ok THEN e
                ELSE LET g == get_indexed_value(e.r.v, i.r.v)
                     IN  IF ~g.ok THEN [m |-> e.m, r |-> g]
                         ELSE [m |-> e.m,
                               r |-> Ok([src_type |-> "Expression", src |-> None,
                                         idx |-> AsUsize(i.r.v), val |-> g.v[1]])]

\* lines 406-428 and 795-811: write the element copy back to its root variable,
\* then give the helper's result val
index_writeback(m, x, target, val) ==
    IF IsSome(x.src) THEN
        IF x.src[1].var_type = "Constant"
        THEN [m |-> m, r |-> Err("ErrorAssignmentToConstant", x.src[1].id)]
        ELSE LET u == update_indexed_var_in_scope(x.src_type, m.scope, x.src[1].id,
                                                  x.src[1].src_idx, x.idx, target)
             IN  IF ~u.r.ok THEN [m |-> m, r |-> u.r]
                 ELSE [m |-> Log([m EXCEPT !.scope = u.scope],
                                 [ev |-> "write", idx |-> x.src[1].src_idx,
                                  value |-> u.scope[x.src[1].src_idx + 1].value]),
                       r |-> val]
    ELSE [m |-> m, r |-> val]

\* a read that stores the copy of the root only when the chain has changed it
get_dot_val_variable_if_changed(m, id, dot_rhs) ==
    LET s == search_scope(m.scope, id)
    IN  IF ~s.ok THEN [m |-> m, r |-> s]
        ELSE LET h == get_dot_val_helper(m, s.v.val, dot_rhs)
             IN  IF Aborted(h.r) \/ h.this = s.v.val THEN [m |-> h.m, r |-> h.r]
                 ELSE LET w == scope_write(h.m, s.v.idx, h.this)
                      IN  IF ~w.r.ok THEN w ELSE [m |-> w.m, r |-> h.r]

\* lines 387-396: id.???
get_dot_val_variable(m, id, dot_rhs) ==
    LET s == search_scope(m.scope, id)
    IN  IF ~s.ok THEN [m |-> m, r |-> s]
        ELSE LET h == get_dot_val_helper(m, s.v.val, dot_rhs)
             IN  IF Aborted(h.r) THEN [m |-> h.m, r |-> h.r]
                 ELSE LET w == scope_write(h.m, s.v.idx, h.this)
                      IN  IF ~w.r.ok THEN w ELSE [m |-> w.m, r |-> h.r]

\* a read through an element that never looks at the root again
get_dot_val_index_no_writeback(m, idx_lhs, idx_expr, dot_rhs) ==
    LET x == eval_index_expr(m, idx_lhs, idx_expr)
    IN  IF ~x.r.ok THEN x
        ELSE LET h == get_dot_val_helper(x.m, x.r.v.val, dot_rhs)
             IN  [m |-> h.m, r |-> h.r]

\* lines 398-429: idx_lhs[idx_expr].???
get_dot_val_index(m, idx_lhs, idx_expr, dot_rhs) ==
    LET x == eval_index_expr(m, idx_lhs, idx_expr)
    IN  IF ~x.r.ok THEN x
        ELSE LET h == get_dot_val_helper(x.m, x.r.v.val, dot_rhs)
             IN  IF Aborted(h.r) THEN [m |-> h.m, r |-> h.r]
                 ELSE index_writeback(h.m, x.r.v, h.this, h.r)

get_dot_val(m, dot_lhs, dot_rhs) ==
    CASE dot_lhs.k = "Variable" -> get_dot_val_variable(m, dot_lhs.id, dot_rhs)
      [] dot_lhs.k = "Index" -> get_dot_val_index(m, dot_lhs.lhs, dot_lhs.idx, dot_rhs)
      [] OTHER ->
           LET t == eval_expr(m, dot_lhs)
           IN  IF ~t.r.ok THEN t
               ELSE LET h == get_dot_val_helper(t.m, t.r.v, dot_rhs)
                    IN  [m |-> h.m, r |-> h.r]

\* an assignment that stores the copy of the root before the chain has run, and
\* again after
set_dot_val_variable_early_write(m, id, dot_rhs, new_val) ==
    LET s == search_scope(m.scope, id)
    IN  IF ~s.ok THEN [m |-> m, r |-> s]
        ELSE IF s.v.var_type = "Constant"
        THEN [m |-> m, r |-> Err("ErrorAssignmentToConstant", id)]
        ELSE LET e == scope_write(m, s.v.idx, s.v.val)
                 h == set_dot_val_helper(e.m, s.v.val, dot_rhs, new_val)
             IN  IF Aborted(h.r) THEN [m |-> h.m, r |-> h.r]
                 ELSE LET w == scope_write(h.m, s.v.idx, h.this)
                      IN  IF ~w.r.ok THEN w ELSE [m |-> w.m, r |-> h.r]

\* lines 763-783: id.??? = new_val
set_dot_val_variable(m, id, dot_rhs, new_val) ==
    LET s == search_scope(m.scope, id)
    IN  IF ~s.ok THEN [m |-> m, r |-> s]
        ELSE IF s.v.var_type = "Constant"
        THEN [m |-> m, r |-> Err("ErrorAssignmentToConstant", id)]
        ELSE LET h == set_dot_val_helper(m, s.v.val, dot_rhs, new_val)
             IN  IF Aborted(h.r) THEN [m |-> h.m, r |-> h.r]
                 ELSE LET w == scope_write(h.m, s.v.idx, h.this)
                      IN  IF ~w.r.ok THEN w ELSE [m |-> w.m, r |-> h.r]

\* lines 785-812: lhs[idx_expr].??? = new_val
set_dot_val_index(m, lhs, idx_expr, dot_rhs, new_val) ==
    LET x == eval_index_expr(m, lhs, idx_expr)
    IN  IF ~x.r.ok THEN x
        ELSE LET h == set_dot_val_helper(x.m, x.r.v.val, dot_rhs, new_val)
             IN  IF Aborted(h.r) THEN [m |-> h.m, r |-> h.r]
                 ELSE index_writeback(h.m, x.r.v, h.this, h.r)

set_dot_val(m, dot_lhs, dot_rhs, new_val) ==
    CASE dot_lhs.k = "Variable" -> set_dot_val_variable(m, dot_lhs.id, dot_rhs, new_val)
      [] dot_lhs.k = "Index" ->
           set_dot_val_index(m, dot_lhs.lhs, dot_lhs.idx, dot_rhs, new_val)
      [] OTHER -> [m |-> m, r |-> Err("ErrorDotExpr", <<"for assignment", "">>)]

\* a list whose later expressions are still evaluated after one has failed
eval_list_keeps_going(m, exprs, acc) ==
    IF exprs = <<>> THEN [m |-> m, r |-> Ok(acc)]
    ELSE LET e == eval_expr(m, Head(exprs))
         IN  IF ~e.r.ok
             THEN [m |-> eval_list(e.m, Tail(exprs), acc).m, r |-> e.r]
             ELSE eval_list(e.m, Tail(exprs), Append(acc, e.r.v))

\* a sequence of expressions, left to right, stopping at the first error
eval_list_body(m, exprs, acc) ==
    IF exprs = <<>> THEN [m |-> m, r |-> Ok(acc)]
    ELSE LET e == eval_expr(m, Head(exprs))
         IN  IF ~e.r.ok THEN e
             ELSE eval_list(e.m, Tail(exprs), Append(acc, e.r.v))

\* an assignment that stores into the oldest binding of the name
assign_variable_oldest(m, name, rhs_val) ==
    LET i == ScopeFind(m.scope, name)
        oldest == CHOOSE j \in 0..i :
                      /\ m.scope[j + 1].name = name
                      /\ \A h \in 0..(j - 1) : m.scope[h + 1].name # name
    IN  IF i < 0 THEN [m |-> m, r |-> Err("ErrorVariableNotFound", name)]
        ELSE IF m.scope[i + 1].kind = "Normal"
        THEN LET w == scope_write(m, oldest, rhs_val)
             IN  IF ~w.r.ok THEN w ELSE [m |-> w.m, r |-> Ok(rhs_val)]
        ELSE [m |-> m, r |-> Err("ErrorAssignmentToConstant", name)]

\* an assignment that does not look at the kind of the binding
assign_variable_any_kind(m, name, rhs_val) ==
    LET i == ScopeFind(m.scope, name)
    IN  IF i < 0 THEN [m |-> m, r |-> Err("ErrorVariableNotFound", name)]
        ELSE LET w == scope_write(m, i, rhs_val)
             IN  IF ~w.r.ok THEN w ELSE [m |-> w.m, r |-> Ok(rhs_val)]

\* lines 849-860: name = rhs_val
assign_variable(m, name, rhs_val) ==
    LET i == ScopeFind(m.scope, name)
    IN  IF i < 0 THEN [m |-> m, r |-> Err("ErrorVariableNotFound", name)]
        ELSE IF m.scope[i + 1].kind = "Normal"
        THEN LET w == scope_write(m, i, rhs_val)
             IN  IF ~w.r.ok THEN w ELSE [m |-> w.m, r |-> Ok(rhs_val)]
        ELSE [m |-> m, r |-> Err("ErrorAssignmentToConstant", name)]

\* lines 862-891: idx_lhs[idx_expr] = rhs_val
assign_index(m, idx_lhs, idx_expr, rhs_val) ==
    LET x == eval_index_expr(m, idx_lhs, idx_expr)
    IN  IF ~x.r.ok THEN x
        ELSE IF IsSome(x.r.v.src)
        THEN index_writeback(x.m, x.r.v, rhs_val, Ok(VUnit))
        ELSE [m |-> x.m, r |-> Err("ErrorAssignmentToUnknownLHS", "")]

\* lines 846-907
eval_assignment(m, lhs, rhs) ==
    LET v == eval_expr(m, rhs)
    IN  IF ~v.r.ok THEN v
        ELSE CASE lhs.k = "Variable" -> assign_variable(v.m, lhs.id, v.r.v)
               [] lhs.k = "Index" -> assign_index(v.m, lhs.lhs, lhs.idx, v.r.v)
               [] lhs.k = "Dot" -> set_dot_val(v.m, lhs.lhs, lhs.rhs, v.r.v)
               [] OTHER ->
                    IF is_constant(lhs)
                    THEN [m |-> v.m, r |-> Err("ErrorAssignmentToConstant", lhs)]
                    ELSE [m |-> v.m, r |-> Err("ErrorAssignmentToUnknownLHS", "")]

\* an operator that evaluates both operands before it combines them
eval_and_or_eager(m, op, lhs, rhs) ==
    LET l == eval_expr(m, lhs)
    IN  IF ~l.r.ok THEN l
        ELSE IF l.r.v.t # "bool"
        THEN [m |-> l.m, r |-> Err("ErrorBooleanArgMismatch", <<op, "lhs">>)]
        ELSE LET rr == eval_expr(l.m, rhs)
             IN  IF ~rr.r.ok THEN rr
                 ELSE IF rr.r.v.t # "bool"
                 THEN [m |-> rr.m, r |-> Err("ErrorBooleanArgMismatch", <<op, "rhs">>)]
                 ELSE [m |-> rr.m,
                       r |-> Ok(VBool(IF op = "OR" THEN l.r.v.v \/ rr.r.v.v
                                      ELSE l.r.v.v /\ rr.r.v.v))]

\* lines 961-991: op is "AND" or "OR"; the right operand is evaluated only when
\* the left one does not decide
eval_and_or(m, op, lhs, rhs) ==
    LET l == eval_expr(m, lhs)
    IN  IF ~l.r.ok THEN l
        ELSE IF l.r.v.t # "bool"
        THEN [m |-> l.m, r |-> Err("ErrorBooleanArgMismatch", <<op, "lhs">>)]
        ELSE IF l.r.v.v = (op = "OR")
        THEN [m |-> l.m, r |-> Ok(VBool(l.r.v.v))]
        ELSE LET rr == eval_expr(l.m, rhs)
             IN  IF ~rr.r.ok THEN rr
                 ELSE IF rr.r.v.t # "bool"
                 THEN [m |-> rr.m, r |-> Err("ErrorBooleanArgMismatch", <<op, "rhs">>)]
                 ELSE [m |-> rr.m, r |-> Ok(VBool(rr.r.v.v))]

\* lines 947-959
eval_function_call(m, e) ==
    LET a == eval_list(m, e.args, <<>>)
    IN  IF ~a.r.ok THEN a
        ELSE LET c == call_fn_raw(a.m, e.name, a.r.v, e.def)
             IN  [m |-> c.m, r |-> c.r]

eval_expr_body(m, e) ==
    CASE e.k = "IntegerConstant" -> [m |-> m, r |-> Ok(VInt(e.i))]
      [] e.k = "StringConstant"  -> [m |-> m, r |-> Ok(VStr(e.s))]
      [] e.k = "CharConstant"    -> [m |-> m, r |-> Ok(VChar(e.c))]
      [] e.k = "Variable" ->
           LET s == search_scope(m.scope, e.id)
           IN  [m |-> m, r |-> IF s.ok THEN Ok(s.v.val) ELSE s]
      [] e.k = "Property" -> [m |-> m, r |-> Panic("unexpected property.")]
      [] e.k = "Index" ->
           LET x == eval_index_expr(m, e.lhs, e.idx)
           IN  [m |-> x.m, r |-> IF x.r.ok THEN Ok(x.r.v.val) ELSE x.r]
      [] e.k = "Stmt" -> eval_stmt(m, e.stmt)
      [] e.k = "Assignment" -> eval_assignment(m, e.lhs, e.rhs)
      [] e.k = "Dot" -> get_dot_val(m, e.lhs, e.rhs)
      [] e.k = "Array" ->
           LET a == eval_list(m, e.items, <<>>)
           IN  [m |-> a.m, r |-> IF a.r.ok THEN Ok(VArr(a.r.v)) ELSE a.r]
      [] e.k = "FunctionCall" /\ e.name = KEYWORD_DUMP_AST ->
           LET c == call_fn_raw(m, KEYWORD_PRINT, <<VStr(e.args)>>, None)
           IN  [m |-> c.m, r |-> c.r]
      [] e.k = "FunctionCall" /\ e.name # KEYWORD_DUMP_AST -> eval_function_call(m, e)
      [] e.k = "And" -> eval_and_or(m, "AND", e.lhs, e.rhs)
      [] e.k = "Or"  -> eval_and_or(m, "OR", e.lhs, e.rhs)
      [] e.k = "True"  -> [m |-> m, r |-> Ok(VBool(TRUE))]
      [] e.k = "False" -> [m |-> m, r |-> Ok(VBool(FALSE))]
      [] e.k = "Unit"  -> [m |-> m, r |-> Ok(VUnit)]

\* a block whose statements run but whose result is always unit
eval_block_stmts_unit(m, stmts, result) ==
    IF stmts = <<>> THEN [m |-> m, r |-> Ok(VUnit)]
    ELSE LET s == eval_stmt(m, Head(stmts))
         IN  IF ~s.r.ok THEN s
             ELSE eval_block_stmts(s.m, Tail(stmts), s.r)

\* lines 1026-1032: the statements of a block, stopping at the first error
eval_block_stmts_body(m, stmts, result) ==
    IF stmts = <<>> THEN [m |-> m, r |-> result]
    ELSE LET s == eval_stmt(m, Head(stmts))
         IN  IF ~s.r.ok THEN s
             ELSE eval_block_stmts(s.m, Tail(stmts), s.r)

\* a block that forgets to rewind
block_rewind_skipped(sc, prev_len) == sc

\* line 1034: scope.rewind(prev_len)
block_rewind(sc, prev_len) == ScopeRewind(sc, prev_len)

\* lines 1021-1037; the log keeps what the block did to the scope
eval_block(m, block) ==
    LET prev_len == ScopeLen(m.scope)
        b  == eval_block_stmts(m, block, Ok(VUnit))
        sc == block_rewind(b.m.scope, prev_len)
    IN  IF Aborted(b.r) THEN b
        ELSE [m |-> Log([b.m EXCEPT !.scope = sc],
                        [ev |-> "block", entry |-> m.scope, grown |-> Len(b.m.scope),
                         exit |-> sc, r |-> b.r]),
              r |-> b.r]

\* an if that takes a guard that is no boolean for false
eval_if_else_lenient(m, s) ==
    LET g == eval_expr(m, s.guard)
    IN  IF ~g.r.ok THEN g
        ELSE IF g.r.v.t = "bool" /\ g.r.v.v THEN eval_stmt(g.m, s.then)
        ELSE IF IsSome(s.else) THEN eval_stmt(g.m, s.else[1])
        ELSE [m |-> g.m, r |-> Ok(VUnit)]

\* lines 1039-1052
eval_if_else(m, s) ==
    LET g == eval_expr(m, s.guard)
    IN  IF ~g.r.ok THEN g
        ELSE IF g.r.v.t # "bool" THEN [m |-> g.m, r |-> Err("ErrorIfGuard", "")]
        ELSE IF g.r.v.v THEN eval_stmt(g.m, s.then)
        ELSE IF IsSome(s.else) THEN eval_stmt(g.m, s.else[1])
        ELSE [m |-> g.m, r |-> Ok(VUnit)]

\* a loop that does not catch the break of its body
loop_body_break_escapes(m, s) ==
    LET b == eval_stmt(m, s.body)
    IN  IF b.r.ok THEN [m |-> b.m, next |-> TRUE, r |-> b.r]
        ELSE [m |-> b.m, next |-> FALSE, r |-> b.r]

\* lines 1059-1065 and 1076-1080: what one run of a loop body means for the loop:
\* "next" (iterate again), or the loop's own result
loop_body(m, s) ==
    LET b == eval_stmt(m, s.body)
    IN  IF b.r.ok THEN [m |-> b.m, next |-> TRUE, r |-> b.r]
        ELSE IF b.r.e = "ErrorLoopBreak"
        THEN [m |-> b.m, next |-> FALSE, r |-> Ok(VUnit)]
        ELSE [m |-> b.m, next |-> FALSE, r |-> b.r]

\* a while loop that runs its body before it looks at the guard
eval_while_body_first(m, s) ==
    IF m.fuel = 0 THEN [m |-> m, r |-> Err("Diverge", "")]
    ELSE LET b == loop_body([m EXCEPT !.fuel = @ - 1], s)
         IN  IF ~b.next THEN [m |-> b.m, r |-> b.r]
             ELSE LET g == eval_expr(b.m, s.guard)
                  IN  IF ~g.r.ok THEN g
                      ELSE IF g.r.v.t # "bool" THEN [m |-> g.m, r |-> Err("ErrorIfGuard", "")]
                      ELSE IF ~g.r.v.v THEN [m |-> g.m, r |-> Ok(VUnit)]
                      ELSE eval_stmt(g.m, s)

\* lines 1054-1072
eval_while(m, s) ==
    LET g == eval_expr(m, s.guard)
    IN  IF ~g.r.ok THEN g
        ELSE IF g.r.v.t # "bool" THEN [m |-> g.m, r |-> Err("ErrorIfGuard", "")]
        ELSE IF ~g.r.v.v THEN [m |-> g.m, r |-> Ok(VUnit)]
        ELSE IF g.m.fuel = 0 THEN [m |-> g.m, r |-> Err("Diverge", "")]
        ELSE LET b == loop_body([g.m EXCEPT !.fuel = @ - 1], s)
             IN  IF b.next THEN eval_stmt(b.m, s) ELSE [m |-> b.m, r |-> b.r]

\* lines 1074-1081
eval_loop(m, s) ==
    IF m.fuel = 0 THEN [m |-> m, r |-> Err("Diverge", "")]
    ELSE LET b == loop_body([m EXCEPT !.fuel = @ - 1], s)
         IN  IF b.next THEN eval_stmt(b.m, s) ELSE [m |-> b.m, r |-> b.r]

\* iterations that go on with the next value after the body has raised break
for_iter_break_continues(m, name, idx, items, body) ==
    IF items = <<>> THEN [m |-> m, r |-> Ok(VUnit)]
    ELSE LET w == scope_write(m, idx, Head(items))
         IN  IF ~w.r.ok THEN w
             ELSE LET b == eval_stmt(w.m, body)
                  IN  IF b.r.ok \/ b.r.e = "ErrorLoopBreak"
                      THEN for_iter(b.m, name, idx, Tail(items), body)
                      ELSE b

\* lines 1092-1100: the iterations over the yielded values; r is Ok when the loop
\* ran out or was broken, and the error that leaves eval_stmt otherwise
for_iter_body(m, name, idx, items, body) ==
    IF items = <<>> THEN [m |-> m, r |-> Ok(VUnit)]
    ELSE LET w == scope_write(m, idx, Head(items))
         IN  IF ~w.r.ok THEN w
             ELSE LET b == eval_stmt(w.m, body)
                  IN  IF b.r.ok THEN for_iter(b.m, name, idx, Tail(items), body)
                      ELSE IF b.r.e = "ErrorLoopBreak" THEN [m |-> b.m, r |-> Ok(VUnit)]
                      ELSE b

\* a for that evaluates its source once to find the iterator and once more to
\* run over it
eval_for_source_twice(m, s) ==
    LET first == eval_expr(m, s.expr)
    IN  IF ~first.r.ok THEN first
        ELSE IF TypeId(first.r.v) \in type_iterators THEN
            LET arr == eval_expr(first.m, s.expr)
            IN  IF ~arr.r.ok THEN arr
                ELSE
                LET m1  == [arr.m EXCEPT !.scope = ScopePush(@, s.name, "Normal", VUnit)]
                    idx == ScopeLen(m1.scope) - 1
                    it  == for_iter(m1, s.name, idx, iter_fn(arr.r.v), s.body)
                IN  IF ~it.r.ok THEN it
                    ELSE [m |-> [it.m EXCEPT !.scope = ScopePop(@)], r |-> Ok(VUnit)]
        ELSE [m |-> first.m, r |-> Err("ErrorFor", "")]

\* lines 1083-1106
eval_for(m, s) ==
    LET arr == eval_expr(m, s.expr)
    IN  IF ~arr.r.ok THEN arr
        ELSE IF TypeId(arr.r.v) \in type_iterators THEN
            LET m1  == [arr.m EXCEPT !.scope = ScopePush(@, s.name, "Normal", VUnit)]
                idx == ScopeLen(m1.scope) - 1
                it  == for_iter(m1, s.name, idx, iter_fn(arr.r.v), s.body)
            IN  IF ~it.r.ok THEN it
                ELSE [m |-> [it.m EXCEPT !.scope = ScopePop(@)], r |-> Ok(VUnit)]
        ELSE [m |-> arr.m, r |-> Err("ErrorFor", "")]

\* a throw that leaves as a return does
eval_throw_as_return(m, s) ==
    IF ~IsSome(s.val)
    THEN [m |-> m, r |-> Err("Return", VUnit)]
    ELSE LET v == eval_expr(m, s.val[1])
         IN  IF ~v.r.ok THEN v
             ELSE [m |-> v.m, r |-> Err("Return", v.r.v)]

\* lines 1111-1135
eval_return_with_val(m, s) ==
    IF ~IsSome(s.val)
    THEN [m |-> m, r |-> IF s.rt = "Return" THEN Err("Return", VUnit)
                         ELSE Err("ErrorRuntime", <<>>)]
    ELSE LET v == eval_expr(m, s.val[1])
         IN  IF ~v.r.ok THEN v
             ELSE IF s.rt = "Return" THEN [m |-> v.m, r |-> Err("Return", v.r.v)]
             ELSE [m |-> v.m,
                   r |-> Err("ErrorRuntime",
                             IF v.r.v.t = "string" THEN v.r.v.v ELSE <<>>)]

\* a let that drops its initializer
eval_let_uninit(m, s) ==
    [m |-> [m EXCEPT !.scope = ScopePush(@, s.name, "Normal", VUnit)], r |-> Ok(VUnit)]

\* lines 1137-1147
eval_let(m, s) ==
    IF IsSome(s.init)
    THEN LET v == eval_expr(m, s.init[1])
         IN  IF ~v.r.ok THEN v
             ELSE [m |-> [v.m EXCEPT !.scope = ScopePush(@, s.name, "Normal", v.r.v)],
                   r |-> Ok(VUnit)]
    ELSE [m |-> [m EXCEPT !.scope = ScopePush(@, s.name, "Normal", VUnit)],
          r |-> Ok(VUnit)]

\* lines 1149-1156
eval_const(m, s) ==
    IF is_constant(s.init)
    THEN LET v == eval_expr(m, s.init)
         IN  IF ~v.r.ok THEN v
             ELSE [m |-> [v.m EXCEPT !.scope = ScopePush(@, s.name, "Constant", v.r.v)],
                   r |-> Ok(VUnit)]
    ELSE [m |-> m, r |-> Panic("constant expression not constant!")]

eval_stmt_body(m, s) ==
    CASE s.k = "Noop" -> [m |-> m, r |-> Ok(VUnit)]
      [] s.k = "Expr" ->
           LET e == eval_expr(m, s.expr)
           IN  IF ~e.r.ok THEN e
               ELSE IF s.expr.k # "Assignment" THEN e
               ELSE [m |-> e.m, r |-> Ok(VUnit)]
      [] s.k = "Block" -> eval_block(m, s.block)
      [] s.k = "IfElse" -> eval_if_else(m, s)
      [] s.k = "While" -> eval_while(m, s)
      [] s.k = "Loop" -> eval_loop(m, s)
      [] s.k = "For" -> eval_for(m, s)
      [] s.k = "Break" -> [m |-> m, r |-> Err("ErrorLoopBreak", "")]
      [] s.k = "ReturnWithVal" -> eval_return_with_val(m, s)
      [] s.k = "Let" -> eval_let(m, s)
      [] s.k = "Const" -> eval_const(m, s)

Invoke(callee, a) ==
    CASE callee = "eval_expr" -> eval_expr_body(a[1], a[2])
      [] callee = "eval_stmt" -> eval_stmt_body(a[1], a[2])
      [] callee = "eval_list" -> eval_list_body(a[1], a[2], a[3])
      [] callee = "eval_block_stmts" -> eval_block_stmts_body(a[1], a[2], a[3])
      [] callee = "for_iter" -> for_iter_body(a[1], a[2], a[3], a[4], a[5])
      [] callee = "call_fn_raw" -> call_fn_raw_body(a[1], a[2], a[3], a[4])
      [] callee = "get_dot_val_helper" -> get_dot_val_helper_body(a[1], a[2], a[3])
      [] callee = "set_dot_val_helper" ->
           set_dot_val_helper_body(a[1], a[2], a[3], a[4])

(***************************************************************************)
(* The host.  It owns the engine and a scope, registers functions, and     *)
(* calls eval_stmt on statements of a compiled script, one call at a time. *)
(***************************************************************************)
NoCall == [stmt |-> Noop, pre |-> <<>>, r |-> Ok(VUnit), trace |-> <<>>]

Init ==
    /\ scope = <<>>
    /\ script_functions = <<>>
    /\ ext_functions = CoreKeys
    /\ pc = "idle"
    /\ last = NoCall

\* Engine::eval_stmt(scope, stmt), called by the host; a panic unwinds into the
\* host, and a call that never returns takes no step
Eval(stmt) ==
    /\ pc = "idle"
    /\ LET res == eval_stmt(Machine(scope, <<>>, MaxFuel), stmt)
       IN  /\ ~(~res.r.ok /\ res.r.e = "Diverge")
           /\ Len(res.m.scope) <= MaxScope
           /\ scope' = res.m.scope
           /\ pc' = IF ~res.r.ok /\ res.r.e = "Panic" THEN "aborted" ELSE "done"
           /\ last' = [stmt |-> stmt, pre |-> scope, r |-> res.r, trace |-> res.m.trace]
    /\ UNCHANGED <<script_functions, ext_functions>>

\* the host takes the result and is ready for the next call
Resume ==
    /\ pc = "done"
    /\ pc' = "idle"
    /\ last' = NoCall
    /\ UNCHANGED <<scope, script_functions, ext_functions>>

\* Scope::push_dynamic(name, kind, value) by the host
HostPush(name, kind, value) ==
    /\ pc = "idle"
    /\ Len(scope) < MaxScope
    /\ scope' = ScopePush(scope, name, kind, value)
    /\ UNCHANGED <<script_functions, ext_functions, pc, last>>

\* the host starts over with a fresh Scope
NewScope ==
    /\ pc = "idle"
    /\ scope # <<>>
    /\ scope' = <<>>
    /\ UNCHANGED <<script_functions, ext_functions, pc, last>>

\* a script function definition is loaded: it replaces the definition of the same
\* (name, arity), or is inserted where the order by (name, arity) puts it
load_script_function(fns, fd) ==
    LET n == find_script_function(fns, fd.name, Len(fd.params))
        k == Cardinality({i \in 1..Len(fns) :
                            compare(fns[i], fd.name, Len(fd.params)) = "Less"})
    IN  IF n >= 0 THEN [fns EXCEPT ![n + 1] = fd]
        ELSE SubSeq(fns, 1, k) \o <<fd>> \o SubSeq(fns, k + 1, Len(fns))

MaxFns == 3        \* most script functions defined at a time

DefineFn(fd) ==
    /\ pc = "idle"
    /\ load_script_function(script_functions, fd) # script_functions
    /\ Len(load_script_function(script_functions, fd)) <= MaxFns
    /\ script_functions' = load_script_function(script_functions, fd)
    /\ UNCHANGED <<scope, ext_functions, pc, last>>

\* a clear_functions that drops one definition only
clear_functions_drops_one ==
    /\ pc = "idle"
    /\ script_functions # <<>>
    /\ script_functions' = Tail(script_functions)
    /\ UNCHANGED <<scope, ext_functions, pc, last>>

\* Engine::clear_functions
ClearFunctions ==
    /\ pc = "idle"
    /\ script_functions # <<>>
    /\ script_functions' = <<>>
    /\ UNCHANGED <<scope, ext_functions, pc, last>>

\* Engine::register_fn: the key of a host function enters ext_functions
RegisterFn(key) ==
    /\ pc = "idle"
    /\ key \notin ext_functions
    /\ ext_functions' = ext_functions \cup {key}
    /\ UNCHANGED <<scope, script_functions, pc, last>>

(***************************************************************************)
(* Scripts of the scope claims: declarations, blocks, and every way out    *)
(* of a block.                                                             *)
(***************************************************************************)
Arr12 == ArrayE(<<IntC(1), IntC(2)>>)

LetInits == {IntC(1), IntC(2), StrC(<<"a">>), Var("y")}

\* { let x = E; x }
LetRef(E) == Block(<<Let("x", E), ExprS(Var("x"))>>)
\* { let x = E; { x } }
LetRefInner(E) == Block(<<Let("x", E), Block(<<ExprS(Var("x"))>>)>>)
\* { let x = E; { let x = 9; } x }
LetShadowed(E) == Block(<<Let("x", E), Block(<<Let("x", IntC(9))>>), ExprS(Var("x"))>>)
\* { { let x = E; } x }
LetGone(E) == Block(<<Block(<<Let("x", E)>>), ExprS(Var("x"))>>)

TopLevelDecls ==
    { Let("x", IntC(1)), Let("x", IntC(2)), Let("y", IntC(5)), Const("k", IntC(7)) }

BlockExits ==
    { Block(<<>>),
      Block(<<Let("x", IntC(1)), Throw>>),
      Block(<<LetU("y"), Break>>),
      Block(<<Const("k", IntC(3)), ReturnV(Var("k"))>>),
      Block(<<Let("x", IntC(1)), ExprS(Var("nowhere"))>>),
      Block(<<For("i", Arr12, Let("z", Var("i")))>>),
      Block(<<For("i", Arr12, Block(<<Let("z", IntC(1)), Throw>>))>>),
      Block(<<For("i", Arr12, Block(<<Let("z", IntC(1)), Break>>)), Let("w", IntC(1))>>),
      Block(<<Let("n", IntC(0)), Loop(Block(<<Let("t", IntC(1)), Break>>))>>),
      Block(<<Let("n", IntC(0)), While(TrueE, Block(<<Let("t", IntC(1)), Throw>>))>>),
      Block(<<Let("a", IntC(1)), Block(<<Let("b", IntC(2)), Block(<<Let("c", IntC(3)), Return>>)>>)>>) }

BareStatements ==
    { For("i", Arr12, Block(<<Throw>>)),
      For("i", Arr12, Block(<<Break>>)),
      For("i", Arr12, Block(<<ExprS(Var("i"))>>)),
      For("i", IntC(1), Noop),
      ExprS(Var("x")),
      ExprS(Assign(Var("x"), IntC(3))),
      Break,
      ThrowV(StrC(<<"e">>)) }

ScopeScripts ==
    TopLevelDecls \cup BlockExits \cup BareStatements
    \cup {LetRef(E) : E \in LetInits} \cup {LetRefInner(E) : E \in LetInits}
    \cup {LetShadowed(E) : E \in LetInits} \cup {LetGone(E) : E \in LetInits}

NextScope ==
    \/ \E stmt \in ScopeScripts : Eval(stmt)
    \/ Resume
    \/ NewScope

SpecScope == Init /\ [][NextScope]_vars

\* two results are the same: both Ok with the same value, or the same error
SameResult(a, b) ==
    /\ a.ok = b.ok
    /\ a.e = b.e
    /\ IF a.ok THEN a.v.t = b.v.t /\ a.v.v = b.v.v ELSE a.v = b.v

\* the result of the last call
Gives(r) == SameResult(last.r, r)

\* the same names and kinds, binding by binding
SameBindings(a, b) ==
    /\ Len(a) = Len(b)
    /\ \A i \in 1..Len(a) : a[i].name = b[i].name /\ a[i].kind = b[i].kind

BlockEvents == {i \in 1..Len(last.trace) : last.trace[i].ev = "block"}

\* C1: every evaluation of a Block, at top level or nested, on success and on
\* every error, break, return or throw, leaves the scope with the length it had
\* at block entry and with the bindings that were there at entry.
C1_BlockRestoresScope ==
    pc = "done" =>
        /\ last.stmt.k = "Block" => SameBindings(last.pre, scope)
        /\ \A i \in BlockEvents :
               SameBindings(last.trace[i].entry, last.trace[i].exit)

\* a nested block that had grown the scope left by an error
C1_Witness ==
    /\ pc = "done"
    /\ last.stmt.k = "Block"
    /\ ~last.r.ok
    /\ \E i \in BlockEvents :
           /\ last.trace[i].grown > Len(last.trace[i].entry)
           /\ ~last.trace[i].r.ok
           /\ Len(last.trace[i].entry) > Len(last.pre)

\* C2: an eval_stmt call that returns an error or a control-flow signal leaves
\* the scope no longer than it was before the call.
C2_ErrorDoesNotGrowScope ==
    (pc = "done" /\ ~last.r.ok) => Len(scope) <= Len(last.pre)

\* what E evaluates to against the scope the call started with
ValueOf(E) == eval_expr(Machine(last.pre, <<>>, MaxFuel), E).r

OuterX == search_scope(last.pre, "x")

\* C10: after `let x = E`, a reference to x in the same block and in nested
\* blocks gives the value of E (also after an inner block re-declared x); after
\* the declaring block has exited, x is the outer binding, unchanged, or is not
\* found.
C10_LetVisibleUntilBlockExit ==
    pc = "done" =>
        \A E \in LetInits :
            /\ last.stmt \in {LetRef(E), LetRefInner(E), LetShadowed(E)}
                  => Gives(ValueOf(E))
            /\ last.stmt = LetGone(E) =>
                  /\ ValueOf(E).ok =>
                        Gives(IF OuterX.ok THEN Ok(OuterX.v.val)
                              ELSE Err("ErrorVariableNotFound", "x"))
                  /\ scope = last.pre

\* x was declared in an inner block while an outer x existed, and the reference
\* after the block gave the outer value
C10_Witness ==
    /\ pc = "done"
    /\ last.stmt = LetGone(IntC(1))
    /\ OuterX.ok
    /\ Gives(Ok(VInt(2)))

(***************************************************************************)
(* Scripts of the constant claims: every form of assignment rooted at x,   *)
(* and reads and method calls on x, against bindings of x that the script  *)
(* (const) or the host (push_dynamic) made.                                *)
(***************************************************************************)
Obj1 == VArr(<<NewObj>>)

ConstDecls ==
    { Const("x", IntC(7)), Const("x", StrC(<<"a", "b">>)), Const("x", Arr12) }

\* the index expressions tried: in range, out of range, negative, not an INT,
\* failing
IndexExprs == { IntC(0), IntC(5), IntC(-1), TrueE, Var("nowhere") }

AssignVar == ExprS(Assign(Var("x"), IntC(8)))
AssignIdx(i) == ExprS(Assign(Index(Var("x"), i), IntC(8)))
AssignDot == ExprS(Assign(Dot(Var("x"), Prop("p")), IntC(8)))
AssignDotIdx(i) == ExprS(Assign(Dot(Var("x"), Index(Prop("a"), i)), IntC(8)))
AssignIdxDot(i) == ExprS(Assign(Dot(Index(Var("x"), i), Prop("p")), IntC(8)))

\* x[i] = v and x[i].p = v: the index step runs before anything looks at the kind
IndexedAssigns ==
    {AssignIdx(i) : i \in IndexExprs} \cup {AssignIdxDot(i) : i \in IndexExprs}

AssignScripts ==
    {AssignVar, AssignDot} \cup {AssignDotIdx(i) : i \in IndexExprs} \cup IndexedAssigns

ReadScripts ==
    { ExprS(Dot(Var("x"), Prop("p"))),
      ExprS(Dot(Var("x"), Dot(Prop("o"), Prop("p")))),
      ExprS(Dot(Var("x"), Call("touch", <<>>))),
      ExprS(Dot(Var("x"), Call("boom", <<>>))),
      ExprS(Dot(Index(Var("x"), IntC(0)), Call("touch", <<>>))),
      ExprS(Index(Var("x"), IntC(0))),
      ExprS(Var("x")) }

ConstScripts == ConstDecls \cup AssignScripts \cup ReadScripts

HostBindings ==
    { Binding("x", "Constant", NewObj), Binding("x", "Constant", Obj1) }

NextConst ==
    \/ \E stmt \in ConstScripts : Eval(stmt)
    \/ Resume
    \/ \E b \in HostBindings : HostPush(b.name, b.kind, b.value)
    \/ NewScope

SpecConst == Init /\ [][NextConst]_vars

\* C3: the bindings of kind Constant that a call found in the scope are there
\* after the call with the kind and the value they had, whatever the statement
\* was: an assignment, a property read, or a method call on the constant.
C3_ConstantKeepsValue ==
    pc = "done" =>
        \A i \in 1..Len(last.pre) :
            (i <= Len(scope) /\ last.pre[i].kind = "Constant") => scope[i] = last.pre[i]

\* the binding of x that the call found
BoundX == search_scope(last.pre, "x")
XIsConstant == BoundX.ok /\ BoundX.v.var_type = "Constant"
ToConstantX == Err("ErrorAssignmentToConstant", "x")

\* C4 as stated: with x bound Constant, each of x = v, x[i] = v, x.p = v,
\* x.p[i] = v and x[i].p = v returns AssignmentToConstant naming x and leaves the
\* scope as it was.
C4_EveryAssignmentNamesConstant ==
    (pc = "done" /\ last.stmt \in AssignScripts /\ XIsConstant) =>
        /\ Gives(ToConstantX)
        /\ scope = last.pre

\* what indexing x with the expression i comes to before the kind of x is looked
\* at: Ok, or the error of the index step
IndexStep(i) ==
    LET x == BoundX.v.val
    IN  IF i.k = "Variable" THEN Err("ErrorVariableNotFound", i.id)
        ELSE IF i.k # "IntegerConstant" THEN Err("ErrorIndexExpr", "")
        ELSE CASE x.t = "array" ->
                    IF 0 <= i.i /\ i.i < Len(x.v) THEN Ok(VUnit)
                    ELSE Err("ErrorArrayBounds", <<Len(x.v), i.i>>)
               [] x.t = "string" ->
                    IF 0 <= i.i /\ i.i < Len(x.v) THEN Ok(VUnit)
                    ELSE Err("ErrorStringBounds", <<Len(x.v), i.i>>)
               [] OTHER -> Err("ErrorIndexingType", map_type_name(TypeName(x)))

\* C4 amended: with x bound Constant, every one of the five assignments fails
\* and leaves the scope as it was; x = v, x.p = v and x.p[i] = v fail with
\* AssignmentToConstant naming x; x[i] = v and x[i].p = v fail with it when i
\* evaluates to an INT inside the array or string x, and with the error of the
\* index step (the error of i itself, IndexExpr, ArrayBounds, StringBounds,
\* IndexingType) otherwise.
C4_ConstantAssignmentFails ==
    (pc = "done" /\ last.stmt \in AssignScripts /\ XIsConstant) =>
        /\ scope = last.pre
        /\ last.stmt \notin IndexedAssigns => Gives(ToConstantX)
        /\ \A i \in IndexExprs :
               last.stmt \in {AssignIdx(i), AssignIdxDot(i)} =>
                   Gives(IF IndexStep(i).ok THEN ToConstantX ELSE IndexStep(i))

\* x[0].p = 8 was refused on a constant array of host objects
C4_Witness ==
    /\ pc = "done"
    /\ last.stmt = AssignIdxDot(IntC(0))
    /\ XIsConstant
    /\ BoundX.v.val = Obj1
    /\ Gives(ToConstantX)

(***************************************************************************)
(* Scripts of the dispatch claims: calls by name with literal arguments,   *)
(* against the script functions loaded and the host functions registered   *)
(* at the time.                                                            *)
(***************************************************************************)
\* fn f(a) { return 11 }, a second definition of f(a), fn f(a, b), fn g(a), fn h()
DispatchFns ==
    { FnDef("f", <<"a">>, ReturnV(IntC(11))),
      FnDef("f", <<"a">>, ReturnV(IntC(12))),
      FnDef("f", <<"a", "b">>, ReturnV(IntC(20))),
      FnDef("g", <<"a">>, ReturnV(IntC(31))),
      FnDef("h", <<>>, ReturnV(IntC(40))) }

ArgLists == { <<>>, <<IntC(1)>>, <<TrueE>>, <<IntC(1), IntC(2)>>, <<TrueE, IntC(2)>> }

DispatchCalls == { ExprS(Call(id, as)) : id \in {"f", "g", "h"}, as \in ArgLists }

\* a call by its full name, with or without a default value
CallN(fn_name, as, def) == [k |-> "FunctionCall", name |-> fn_name, args |-> as, def |-> def]

FallbackNames ==
    { KEYWORD_TYPE_OF, <<FUNC_GETTER, "z">>, <<FUNC_SETTER, "z">>, Fn("r") }

FallbackCalls ==
    { ExprS(CallN(n, as, d)) :
        n \in FallbackNames,
        as \in { <<IntC(1)>>, <<TrueE>>, <<IntC(1), IntC(2)>> },
        d \in { None, Some(VInt(99)) } }

\* new_ts().z and new_ts().r(): a property and a method that the host type does
\* not have
MissingProperty ==
    { ExprS(Dot(Call("new_ts", <<>>), Prop("z"))),
      ExprS(Dot(Call("new_ts", <<>>), Call("r", <<>>))) }

DispatchScripts == DispatchCalls \cup FallbackCalls \cup MissingProperty

NextDispatch ==
    \/ \E stmt \in DispatchScripts : Eval(stmt)
    \/ Resume
    \/ \E fd \in DispatchFns : DefineFn(fd)
    \/ ClearFunctions
    \/ \E key \in OptionalKeys : RegisterFn(key)

SpecDispatch == Init /\ [][NextDispatch]_vars

\* the call that the last statement was, and the type-ids of its literal arguments
LastCall == last.stmt.expr
LiteralType(e) == IF e.k = "IntegerConstant" THEN "int" ELSE "bool"
LastArgTypes == [i \in 1..Len(LastCall.args) |-> LiteralType(LastCall.args[i])]

\* the script functions of the called name and arity
Candidates ==
    {i \in 1..Len(script_functions) :
        /\ script_functions[i].name = LastCall.name
        /\ Len(script_functions[i].params) = Len(LastCall.args)}

HostMatches == <<LastCall.name, LastArgTypes>> \in ext_functions

HostEvents == {i \in 1..Len(last.trace) : last.trace[i].ev = "host"}
ScriptEvents == {i \in 1..Len(last.trace) : last.trace[i].ev = "script"}

\* C5: when a script function of the called name and of arity equal to the
\* number of arguments is defined, its body is what runs (whatever the argument
\* types, and whether or not a host function matches), no host function runs,
\* and no definition of another arity is selected; otherwise the host function
\* registered under (name, argument type-ids) runs, and only that one; with
\* neither, nothing is called.  The selection is a function of the call and of
\* the two tables.
C5_DispatchSelection ==
    (pc = "done" /\ last.stmt \in DispatchCalls) =>
        IF Candidates # {}
        THEN /\ HostEvents = {}
             /\ ScriptEvents = {1}
             /\ \E i \in Candidates :
                    /\ last.trace[1].def = script_functions[i]
                    /\ Gives(Ok(VInt(script_functions[i].body.val[1].i)))
        ELSE IF HostMatches
        THEN /\ ScriptEvents = {}
             /\ HostEvents = {1}
             /\ last.trace[1].fn = LastCall.name
             /\ [i \in 1..Len(last.trace[1].args) |-> TypeId(last.trace[1].args[i])]
                    = LastArgTypes
        ELSE /\ ScriptEvents = {} /\ HostEvents = {}
             /\ ~last.r.ok

\* f(1) ran the script function f(a) although the host function f(int) was
\* registered and f(a, b) was defined too
C5_Witness ==
    /\ pc = "done"
    /\ last.stmt = ExprS(Call("f", <<IntC(1)>>))
    /\ <<Fn("f"), <<"int">>>> \in ext_functions
    /\ \E i \in 1..Len(script_functions) :
           script_functions[i].name = Fn("f") /\ Len(script_functions[i].params) = 2
    /\ ScriptEvents = {1}
    /\ Len(last.trace[1].def.params) = 1

PrettyName(e) == IF e.k = "IntegerConstant" THEN "i64" ELSE "bool"

\* C6: a call that matches no script function and no host function gives, in
\* this order: the pretty type name for type_of with one argument; the DotExpr
\* error "unknown or write-only" for a name that starts with get$; the DotExpr
\* error "unknown or read-only" for a name that starts with set$; the default
\* value if there is one; FunctionNotFound.
C6_FallbackPriority ==
    (pc = "done" /\ last.stmt \in FallbackCalls /\ Candidates = {} /\ ~HostMatches) =>
        Gives(
          IF LastCall.name = KEYWORD_TYPE_OF /\ Len(LastCall.args) = 1
          THEN Ok(VStr(<<PrettyName(LastCall.args[1])>>))
          ELSE IF LastCall.name[1] = "get$"
          THEN Err("ErrorDotExpr", <<"unknown or write-only", LastCall.name[2]>>)
          ELSE IF LastCall.name[1] = "set$"
          THEN Err("ErrorDotExpr", <<"unknown or read-only", LastCall.name[2]>>)
          ELSE IF LastCall.def # None
          THEN Ok(LastCall.def[1])
          ELSE Err("ErrorFunctionNotFound",
                   <<LastCall.name,
                     [i \in 1..Len(LastCall.args) |-> PrettyName(LastCall.args[i])]>>))

\* a missing getter called with a default value at hand failed all the same
C6_Witness ==
    /\ pc = "done"
    /\ last.stmt = ExprS(CallN(<<FUNC_GETTER, "z">>, <<IntC(1)>>, Some(VInt(99))))
    /\ Gives(Err("ErrorDotExpr", <<"unknown or write-only", "z">>))

(***************************************************************************)
(* Scripts of the control-flow claims.  print("late") stands after every   *)
(* statement that must end its block, print("after") after a call that     *)
(* must come back to its caller.                                           *)
(***************************************************************************)
Say(text) == ExprS(Call("print", <<StrC(<<text>>)>>))
Late == Say("late")
After == Say("after")
Inc(n, by) == ExprS(Assign(Var(n), Call("+", <<Var(n), IntC(by)>>)))

\* bodies of fn r() with what the call r() must give
FlowBodies ==
    { [body |-> Block(<<ReturnV(IntC(1)), Late>>), expect |-> Ok(VInt(1))],
      [body |-> Block(<<Block(<<Block(<<ReturnV(IntC(2))>>), Late>>), Late>>),
       expect |-> Ok(VInt(2))],
      [body |-> Block(<<If(TrueE, Block(<<ReturnV(IntC(3))>>)), Late>>),
       expect |-> Ok(VInt(3))],
      [body |-> Block(<<While(TrueE, Block(<<ReturnV(IntC(4)), Late>>)), Late>>),
       expect |-> Ok(VInt(4))],
      [body |-> Block(<<Loop(Block(<<ReturnV(IntC(5))>>)), Late>>),
       expect |-> Ok(VInt(5))],
      [body |-> Block(<<For("i", Arr12, Block(<<ReturnV(Var("i"))>>)), Late>>),
       expect |-> Ok(VInt(1))],
      [body |-> Block(<<While(TrueE, Loop(For("i", Arr12,
                                             If(TrueE, ReturnV(IntC(7)))))), Late>>),
       expect |-> Ok(VInt(7))],
      [body |-> Block(<<Loop(Block(<<Return>>)), Late>>), expect |-> Ok(VUnit)],
      [body |-> Block(<<Loop(Break), ReturnV(IntC(9)), Late>>), expect |-> Ok(VInt(9))],
      [body |-> Block(<<Break, Late>>), expect |-> Err("ErrorLoopBreak", "")],
      [body |-> Block(<<If(TrueE, Break), Late>>), expect |-> Err("ErrorLoopBreak", "")],
      [body |-> Block(<<Loop(Block(<<ThrowV(StrC(<<"e">>))>>)), Late>>),
       expect |-> Err("ErrorRuntime", <<"e">>)],
      [body |-> Block(<<While(TrueE, For("i", Arr12, Throw)), Late>>),
       expect |-> Err("ErrorRuntime", <<>>)] }

FlowFns == { FnDef("r", <<>>, b.body) : b \in FlowBodies }

CallR == Call("r", <<>>)
\* r()
CallAlone == ExprS(CallR)
\* { let v = r(); print("after"); v }
CallThenGoOn == Block(<<Let("v", CallR), After, ExprS(Var("v"))>>)
\* loop { r(); print("after"); break }
CallInLoop == Loop(Block(<<ExprS(CallR), After, Break>>))

Callers == { CallAlone, CallThenGoOn, CallInLoop }

\* statements around break with what eval_stmt must give
BreakScripts ==
    { [stmt |-> Block(<<Let("n", IntC(0)),
                        While(TrueE, Block(<<Inc("n", 1), Break, Inc("n", 10)>>)),
                        ExprS(Var("n"))>>),
       expect |-> Ok(VInt(1))],
      [stmt |-> Block(<<Let("n", IntC(0)),
                        Loop(Block(<<Inc("n", 1), Break, Inc("n", 10)>>)),
                        ExprS(Var("n"))>>),
       expect |-> Ok(VInt(1))],
      [stmt |-> Block(<<Let("n", IntC(0)),
                        For("i", Arr12, Block(<<Inc("n", 1), Break, Inc("n", 10)>>)),
                        ExprS(Var("n"))>>),
       expect |-> Ok(VInt(1))],
      [stmt |-> Block(<<Let("n", IntC(0)),
                        Loop(Block(<<Inc("n", 1),
                                     If(TrueE, Block(<<Block(<<Break>>), Late>>)),
                                     Inc("n", 10)>>)),
                        ExprS(Var("n"))>>),
       expect |-> Ok(VInt(1))],
      \* the inner loop is broken twice, the outer loop goes on: 2 * (1 + 10)
      [stmt |-> Block(<<Let("n", IntC(0)), Let("i", IntC(0)),
                        While(Call("<", <<Var("i"), IntC(2)>>),
                              Block(<<Inc("i", 1),
                                      Loop(Block(<<Inc("n", 1), Break>>)),
                                      Inc("n", 10)>>)),
                        ExprS(Var("n"))>>),
       expect |-> Ok(VInt(22))],
      [stmt |-> Block(<<Let("n", IntC(0)),
                        For("i", Arr12,
                            Block(<<For("j", Arr12, Block(<<Inc("n", 1), Break>>)),
                                    Inc("n", 10)>>)),
                        ExprS(Var("n"))>>),
       expect |-> Ok(VInt(22))],
      [stmt |-> Block(<<Let("n", IntC(0)),
                        Loop(Block(<<While(TrueE, Break),
                                     Inc("n", 1),
                                     If(Call("==", <<Var("n"), IntC(2)>>), Break)>>)),
                        ExprS(Var("n"))>>),
       expect |-> Ok(VInt(2))],
      [stmt |-> While(TrueE, Break), expect |-> Ok(VUnit)],
      [stmt |-> Loop(Break), expect |-> Ok(VUnit)],
      [stmt |-> For("i", Arr12, Break), expect |-> Ok(VUnit)],
      [stmt |-> Break, expect |-> Err("ErrorLoopBreak", "")],
      [stmt |-> Block(<<Let("a", IntC(1)), Break, Late>>),
       expect |-> Err("ErrorLoopBreak", "")],
      [stmt |-> If(TrueE, Block(<<Break>>)), expect |-> Err("ErrorLoopBreak", "")],
      [stmt |-> Block(<<Loop(Break), Break, Late>>),
       expect |-> Err("ErrorLoopBreak", "")] }

FlowScripts == Callers \cup { b.stmt : b \in BreakScripts }

NextFlow ==
    \/ \E stmt \in FlowScripts : Eval(stmt)
    \/ Resume
    \/ \E fd \in FlowFns : DefineFn(fd)
    \/ ClearFunctions

SpecFlow == Init /\ [][NextFlow]_vars

Said(text) ==
    \E i \in 1..Len(last.trace) :
        last.trace[i].ev = "sink" /\ last.trace[i].text = <<text>>

\* C7: a call of a script function whose body raises Return(v), at any depth
\* of blocks, if, while, loop and for, gives Ok(v) and runs nothing that stands
\* after the return in the body; the caller goes on after the call.  A break or
\* a throw that the body does not catch leaves the call as it is: the caller
\* stops with it, and a loop around the call catches the break.
C7_ReturnCaughtAtFunctionBoundary ==
    (pc = "done" /\ last.stmt \in Callers) =>
        \A b \in FlowBodies :
            script_functions = <<FnDef("r", <<>>, b.body)>> =>
                /\ ~Said("late")
                /\ last.stmt = CallAlone => Gives(b.expect)
                /\ last.stmt = CallThenGoOn =>
                       /\ Gives(b.expect)
                       /\ Said("after") <=> b.expect.ok
                /\ last.stmt = CallInLoop =>
                       /\ Said("after") <=> b.expect.ok
                       /\ Gives(IF b.expect.ok \/ b.expect.e = "ErrorLoopBreak"
                                THEN Ok(VUnit) ELSE b.expect)

\* r() returned 7 from inside while / loop / for / if, and the caller went on
C7_Witness ==
    /\ pc = "done"
    /\ last.stmt = CallThenGoOn
    /\ script_functions # <<>>
    /\ script_functions[1].body.block[1].k = "While"
    /\ Gives(Ok(VInt(7)))
    /\ Said("after")

\* C8: a break inside the body of a while, loop or for ends that loop, the
\* innermost one around it: the loop statement gives unit, nothing after the
\* break in its body runs, no further iteration runs, and a loop around it goes
\* on.  A break with no loop around it leaves the block and eval_stmt as the
\* LoopBreak signal.
C8_BreakEndsInnermostLoop ==
    pc = "done" =>
        \A b \in BreakScripts :
            last.stmt = b.stmt => (Gives(b.expect) /\ scope = last.pre /\ ~Said("late"))

\* the inner loop was broken in both iterations of the outer while
C8_Witness ==
    /\ pc = "done"
    /\ last.stmt.k = "Block"
    /\ Len(last.stmt.block) = 4
    /\ last.stmt.block[3].k = "While"
    /\ Gives(Ok(VInt(22)))

(***************************************************************************)
(* Scripts of the short-circuit claim: lhs && rhs and lhs || rhs with a    *)
(* left operand that is a literal, the variable b, not a boolean, or an    *)
(* error, and a right operand that writes y, calls a host function, is not *)
(* a boolean, or fails.                                                    *)
(***************************************************************************)
LogicLhs == { TrueE, FalseE, Var("b"), IntC(1), Var("nowhere") }

LogicRhs ==
    { TrueE, FalseE,
      Assign(Var("y"), TrueE),
      Assign(Var("y"), IntC(1)),
      Var("nowhere"),
      Call("g", <<IntC(1)>>),
      Call("<", <<IntC(1), IntC(2)>>) }

LogicScripts ==
    { ExprS(And(l, r)) : l \in LogicLhs, r \in LogicRhs }
    \cup { ExprS(Or(l, r)) : l \in LogicLhs, r \in LogicRhs }

LogicBindings ==
    { Binding("y", "Normal", VInt(0)),
      Binding("b", "Normal", VBool(TRUE)), Binding("b", "Normal", VBool(FALSE)) }

NextLogic ==
    \/ \E stmt \in LogicScripts : Eval(stmt)
    \/ Resume
    \/ \E b \in LogicBindings : HostPush(b.name, b.kind, b.value)
    \/ NewScope

SpecLogic == Init /\ [][NextLogic]_vars

\* the operator and the operands of the last statement
LastOp == IF last.stmt.expr.k = "And" THEN "AND" ELSE "OR"
LastLhs == last.stmt.expr.lhs
LastRhs == last.stmt.expr.rhs

\* the left operand is a boolean, as a literal or as the value of b
LhsIsBool ==
    \/ LastLhs \in {TrueE, FalseE}
    \/ /\ LastLhs = Var("b")
       /\ search_scope(last.pre, "b").ok
LhsBool ==
    IF LastLhs = TrueE THEN TRUE
    ELSE IF LastLhs = FalseE THEN FALSE
    ELSE search_scope(last.pre, "b").v.val.v

\* false && rhs, true || rhs
LhsDecides == LhsIsBool /\ (LhsBool = (LastOp = "OR"))

BoundY == search_scope(last.pre, "y")
NotBoolean == Err("ErrorBooleanArgMismatch", <<LastOp, "rhs">>)

\* the right operand was evaluated once: its result, its one write or its one
\* host call
RhsEvaluatedOnce ==
    CASE LastRhs \in {TrueE, FalseE} ->
           /\ Gives(Ok(VBool(LastRhs = TrueE)))
           /\ scope = last.pre /\ last.trace = <<>>
      [] LastRhs.k = "Assignment" ->
           IF BoundY.ok
           THEN /\ Gives(IF LastRhs.rhs = TrueE THEN Ok(VBool(TRUE)) ELSE NotBoolean)
                /\ Len(last.trace) = 1 /\ last.trace[1].ev = "write"
                /\ scope = [last.pre EXCEPT ![BoundY.v.idx + 1].value =
                               IF LastRhs.rhs = TrueE THEN VBool(TRUE) ELSE VInt(1)]
           ELSE /\ Gives(Err("ErrorVariableNotFound", "y"))
                /\ scope = last.pre /\ last.trace = <<>>
      [] LastRhs = Var("nowhere") ->
           /\ Gives(Err("ErrorVariableNotFound", "nowhere"))
           /\ scope = last.pre /\ last.trace = <<>>
      [] LastRhs.k = "FunctionCall" ->
           /\ Gives(IF LastRhs.name = Fn("<") THEN Ok(VBool(TRUE)) ELSE NotBoolean)
           /\ Len(last.trace) = 1
           /\ last.trace[1].ev = "host" /\ last.trace[1].fn = LastRhs.name
           /\ scope = last.pre

\* C9: when lhs is false in lhs && rhs, or true in lhs || rhs, the right operand
\* is not evaluated: the scope is untouched, nothing is called, no error of rhs
\* (a non-boolean included) is returned, and the result is the left value.  When
\* lhs is the other boolean, rhs is evaluated once and its error is the result.
C9_ShortCircuit ==
    (pc = "done" /\ last.stmt \in LogicScripts /\ LhsIsBool) =>
        IF LhsDecides
        THEN /\ Gives(Ok(VBool(LhsBool)))
             /\ scope = last.pre
             /\ last.trace = <<>>
        ELSE RhsEvaluatedOnce

\* b was true and `b || (y = 1)` gave true without writing y
C9_Witness ==
    /\ pc = "done"
    /\ last.stmt = ExprS(Or(Var("b"), Assign(Var("y"), IntC(1))))
    /\ BoundY.ok
    /\ LhsIsBool /\ LhsBool
    /\ last.r = Ok(VBool(TRUE))
    /\ scope = last.pre

(***************************************************************************)
(* Scripts of the dot-assignment claims: x is a Normal variable holding a  *)
(* host object with the faithful getters and setters of p, o, a and s.     *)
(***************************************************************************)
\* x.p = 8
SetP == ExprS(Assign(Dot(Var("x"), Prop("p")), IntC(8)))
\* x.o.p = g(1)     (the host function g gives 201)
SetOP == ExprS(Assign(Dot(Var("x"), Dot(Prop("o"), Prop("p"))), Call("g", <<IntC(1)>>)))
\* x.a[1] = 8
SetA1 == ExprS(Assign(Dot(Var("x"), Index(Prop("a"), IntC(1))), IntC(8)))

ChainWrites == { SetP, SetOP, SetA1 }

\* assignments that fail: no such property, a value of the wrong type
ChainWriteFailures ==
    { ExprS(Assign(Dot(Var("x"), Prop("z")), IntC(8))),
      ExprS(Assign(Dot(Var("x"), Prop("p")), TrueE)),
      ExprS(Assign(Dot(Var("x"), Dot(Prop("o"), Prop("z"))), IntC(8))) }

ChainScripts == ChainWrites \cup ChainWriteFailures

NextChain ==
    \/ \E stmt \in ChainScripts : Eval(stmt)
    \/ Resume
    \/ HostPush("x", "Normal", NewObj)
    \/ NewScope

SpecChain == Init /\ [][NextChain]_vars

\* the chain of an assignment statement read back against the scope as it is now
ReadBack == eval_expr(Machine(scope, <<>>, MaxFuel), last.stmt.expr.lhs).r

\* the value assigned by each of the writes
Assigned == IF last.stmt = SetOP THEN VInt(201) ELSE VInt(8)

\* the object x held before the call, with the one field or element assigned
XAfterWrite ==
    LET x == BoundX.v.val
    IN  CASE last.stmt = SetP  -> [x EXCEPT !.v.p = Assigned]
          [] last.stmt = SetOP -> [x EXCEPT !.v.o.v.p = Assigned]
          [] last.stmt = SetA1 -> [x EXCEPT !.v.a.v[2] = Assigned]

\* C11: after a successful x.p = v, x.o.p = v or x.a[i] = v on a Normal x, the
\* same chain read back gives v, and x is what it was but for the one field or
\* element assigned; the rest of the scope is what it was.
C11_DotAssignmentReadsBack ==
    (pc = "done" /\ last.stmt \in ChainWrites /\ last.r.ok) =>
        /\ BoundX.ok
        /\ SameResult(ReadBack, Ok(Assigned))
        /\ scope = [last.pre EXCEPT ![BoundX.v.idx + 1].value = XAfterWrite]

\* x.o.p = g(1) succeeded on an x whose p and a[1] had been assigned before
C11_Witness ==
    /\ pc = "done"
    /\ last.stmt = SetOP
    /\ last.r.ok
    /\ BoundX.ok
    /\ BoundX.v.val.v.p = VInt(8)
    /\ BoundX.v.val.v.a = VArr(<<VInt(1), VInt(8)>>)
    /\ BoundX.v.val.v.o.v.p = VInt(0)

\* the names of what the call did, in the order it did it
Steps == [i \in 1..Len(last.trace) |->
              IF last.trace[i].ev = "write" THEN <<"write">>
              ELSE <<last.trace[i].ev, last.trace[i].fn>>]

\* C19: x.o.p = rhs on a Normal x does, in this order and once each: the
\* evaluation of rhs, get$o on the copy of x giving tmp, set$p(tmp, v),
\* set$o(copy, tmp), and one write of the copy into the slot of x.
C19_NestedSetterOrder ==
    (pc = "done" /\ last.stmt = SetOP /\ BoundX.ok) =>
        /\ Steps = << <<"host", Fn("g")>>,
                      <<"host", <<FUNC_GETTER, "o">>>>,
                      <<"host", <<FUNC_SETTER, "p">>>>,
                      <<"host", <<FUNC_SETTER, "o">>>>,
                      <<"write">> >>
        /\ last.trace[2].args = <<BoundX.v.val>>
        /\ last.trace[3].args = <<BoundX.v.val.v.o, VInt(201)>>
        /\ last.trace[4].args = <<BoundX.v.val, [BoundX.v.val.v.o EXCEPT !.v.p = VInt(201)]>>
        /\ last.trace[5].idx = BoundX.v.idx
        /\ last.trace[5].value = scope[BoundX.v.idx + 1].value

\* the five steps were taken on the second x of the scope
C19_Witness ==
    /\ pc = "done"
    /\ last.stmt = SetOP
    /\ BoundX.ok /\ BoundX.v.idx = 1
    /\ Len(last.trace) = 5
    /\ last.trace[5].ev = "write"
    /\ scope[2].value.v.o.v.p = VInt(201)

(***************************************************************************)
(* Scripts of the failing-chain claim: chains rooted at a Normal x that    *)
(* fail at a getter, a setter, a method or an index step; boom is a method *)
(* that sets p of its receiver to 9 and then fails.                        *)
(***************************************************************************)
FailingChains ==
    { ExprS(Dot(Var("x"), Call("boom", <<>>))),
      ExprS(Dot(Var("x"), Prop("z"))),
      ExprS(Dot(Var("x"), Dot(Prop("o"), Call("boom", <<>>)))),
      ExprS(Dot(Var("x"), Index(Prop("a"), IntC(5)))),
      ExprS(Assign(Dot(Var("x"), Prop("z")), IntC(8))),
      ExprS(Assign(Dot(Var("x"), Dot(Prop("o"), Prop("z"))), IntC(8))) }

\* chains that succeed and mutate x
MutatingChains ==
    { ExprS(Dot(Var("x"), Call("touch", <<>>))),
      ExprS(Dot(Var("x"), Call("put", <<IntC(5)>>))) }

ChainErrScripts == FailingChains \cup MutatingChains

NextChainErr ==
    \/ \E stmt \in ChainErrScripts : Eval(stmt)
    \/ Resume
    \/ HostPush("x", "Normal", NewObj)
    \/ NewScope

SpecChainErr == Init /\ [][NextChainErr]_vars

\* C12: when a chain rooted at x returns an error from a getter, a setter, a
\* method or an index step, the root copy is not written back: the scope, and
\* with it the slot of x, is what it was before the chain was evaluated, also
\* when a host function had mutated its receiver before it failed.
C12_FailedChainLeavesScope ==
    (pc = "done" /\ last.stmt \in FailingChains /\ ~last.r.ok) => scope = last.pre

(***************************************************************************)
(* Scripts of the indexing claims: a holds an array, a string or a value   *)
(* that cannot be indexed, x holds a host object whose a is [1, 2] and     *)
(* whose s is "ab"; the indices reach below 0 and beyond the length.       *)
(***************************************************************************)
Indices == { -1, 0, 1, 2, 5 }

\* a[i]
ReadA(i) == ExprS(Index(Var("a"), IntC(i)))
\* a[i] = 8
WriteA(i) == ExprS(Assign(Index(Var("a"), IntC(i)), IntC(8)))
\* x.a[i]
ReadXA(i) == ExprS(Dot(Var("x"), Index(Prop("a"), IntC(i))))
\* x.a[i] = 8
WriteXA(i) == ExprS(Assign(Dot(Var("x"), Index(Prop("a"), IntC(i))), IntC(8)))
\* x.s[i] = 'c'
WriteXS(i) == ExprS(Assign(Dot(Var("x"), Index(Prop("s"), IntC(i))), CharC("c")))
\* x.a[i].p = 8
WriteXAP(i) ==
    ExprS(Assign(Dot(Var("x"), Dot(Index(Prop("a"), IntC(i)), Prop("p"))), IntC(8)))

OutOfRange == { -1, 5 }

OutOfRangeOnA == {ReadA(i) : i \in OutOfRange} \cup {WriteA(i) : i \in OutOfRange}
OutOfRangeOnX ==
    {ReadXA(i) : i \in OutOfRange} \cup {WriteXA(i) : i \in OutOfRange}
    \cup {WriteXS(i) : i \in OutOfRange} \cup {WriteXAP(i) : i \in OutOfRange}

IndexScripts == {ReadA(i) : i \in Indices} \cup OutOfRangeOnA \cup OutOfRangeOnX

IndexBindings ==
    { Binding("a", "Normal", VArr(<<VInt(1), VInt(2)>>)),
      Binding("a", "Normal", VArr(<<>>)),
      Binding("a", "Normal", VStr(<<"a", "b">>)),
      Binding("a", "Normal", VInt(7)),
      Binding("x", "Normal", NewObj) }

NextIndex ==
    \/ \E stmt \in IndexScripts : Eval(stmt)
    \/ Resume
    \/ \E b \in IndexBindings : HostPush(b.name, b.kind, b.value)
    \/ NewScope

SpecIndex == Init /\ [][NextIndex]_vars

\* the binding of a that the call found
BoundA == search_scope(last.pre, "a")

\* the statement indexes a container that is there: the array or string a, or a
\* property of the object x
IndexesContainer ==
    \/ last.stmt \in OutOfRangeOnA /\ BoundA.ok /\ BoundA.v.val.t \in {"array", "string"}
    \/ last.stmt \in OutOfRangeOnX /\ BoundX.ok

\* C13: an index below 0 or not below the length, in a[i], a[i] = v, x.p[i],
\* x.p[i] = v and x.p[i].q = v, comes back to the caller as an ArrayBounds or
\* StringBounds error; the evaluation does not abort and writes nothing.
C13_BadIndexIsAnError ==
    (pc # "idle" /\ IndexesContainer) =>
        /\ pc = "done"
        /\ ~last.r.ok
        /\ last.r.e \in {"ErrorArrayBounds", "ErrorStringBounds"}
        /\ scope = last.pre

\* what indexing val with idx must give
Indexed(val, idx) ==
    CASE val.t = "array" ->
           IF 0 <= idx /\ idx < Len(val.v) THEN Ok(val.v[idx + 1])
           ELSE Err("ErrorArrayBounds", <<Len(val.v), idx>>)
      [] val.t = "string" ->
           IF 0 <= idx /\ idx < Len(val.v) THEN Ok(VChar(val.v[idx + 1]))
           ELSE Err("ErrorStringBounds", <<Len(val.v), idx>>)
      [] OTHER -> Err("ErrorIndexingType", TypeName(val))

\* C15: indexing a value gives the element (the character, for a string) exactly
\* when 0 <= idx < length, ArrayBounds or StringBounds with the length and the
\* index asked for otherwise, IndexingType for a value that is neither an array
\* nor a string; the value indexed is not changed.
C15_GetIndexedValue ==
    (pc = "done" /\ BoundA.ok) =>
        \A i \in Indices :
            last.stmt = ReadA(i) =>
                /\ Gives(Indexed(BoundA.v.val, i))
                /\ scope = last.pre

\* a[1] of [1, 2] gave 2, the last element
C15_Witness ==
    /\ pc = "done"
    /\ last.stmt = ReadA(1)
    /\ BoundA.ok
    /\ BoundA.v.val = VArr(<<VInt(1), VInt(2)>>)
    /\ last.r = Ok(VInt(2))

(***************************************************************************)
(* Scripts of the index-assignment claim: a is a Normal array, s a Normal  *)
(* string, both of length 2.                                               *)
(***************************************************************************)
InRange == { 0, 1 }

\* s[i] = 'c'
WriteS(i) == ExprS(Assign(Index(Var("s"), IntC(i)), CharC("c")))
\* a[i] = a[i], s[i] = s[i]
SelfAssign(n, i) == ExprS(Assign(Index(Var(n), IntC(i)), Index(Var(n), IntC(i))))

IndexWrites == {WriteA(i) : i \in InRange} \cup {WriteS(1)}
SelfAssigns == {SelfAssign("a", i) : i \in InRange} \cup {SelfAssign("s", i) : i \in InRange}

\* s[0] = 8: not a character
NotAChar == ExprS(Assign(Index(Var("s"), IntC(0)), IntC(8)))

IndexWriteScripts == IndexWrites \cup SelfAssigns \cup {NotAChar}

IndexWriteBindings ==
    { Binding("a", "Normal", VArr(<<VInt(1), VInt(2)>>)),
      Binding("s", "Normal", VStr(<<"a", "b">>)) }

NextIndexWrite ==
    \/ \E stmt \in IndexWriteScripts : Eval(stmt)
    \/ Resume
    \/ \E b \in IndexWriteBindings : HostPush(b.name, b.kind, b.value)
    \/ NewScope

SpecIndexWrite == Init /\ [][NextIndexWrite]_vars

\* the variable that the statement assigns into, its index and the value assigned
Target == search_scope(last.pre, last.stmt.expr.lhs.lhs.id)
TargetIndex == last.stmt.expr.lhs.idx.i
Stored == IF last.stmt.expr.lhs.lhs.id = "a" THEN VInt(8) ELSE VChar("c")

\* the element of the target at the index, read against the scope as it is now
ElementNow == eval_expr(Machine(scope, <<>>, MaxFuel), last.stmt.expr.lhs).r

\* C14: with a Normal a of length n holding an array or a string and
\* 0 <= i < n, a[i] = v succeeds, the read a[i] then gives v, the length is n
\* and every other element, and every other variable, is what it was; a[i] =
\* a[i] leaves the scope as it was.
C14_IndexAssignmentReadsBack ==
    (pc = "done" /\ Target.ok) =>
        /\ last.stmt \in IndexWrites =>
              /\ Gives(Ok(VUnit))
              /\ SameResult(ElementNow, Ok(Stored))
              /\ scope = [last.pre EXCEPT ![Target.v.idx + 1].value.v[TargetIndex + 1] =
                              IF Stored.t = "char" THEN Stored.v ELSE Stored]
              /\ Len(scope[Target.v.idx + 1].value.v) = Len(Target.v.val.v)
        /\ last.stmt \in SelfAssigns =>
              /\ Gives(Ok(VUnit))
              /\ scope = last.pre

\* s[1] = 'c' turned "ab" into "ac"
C14_Witness ==
    /\ pc = "done"
    /\ last.stmt = WriteS(1)
    /\ Target.ok
    /\ Target.v.val = VStr(<<"a", "b">>)
    /\ scope[Target.v.idx + 1].value = VStr(<<"a", "c">>)

(***************************************************************************)
(* Scripts of the loop claim: counting loops over a variable i, which the  *)
(* script declares itself or the host has pushed.                          *)
(***************************************************************************)
MaxCount == 4      \* largest N and K of the counting loops

\* while i < N { i = i + 1; }
WhileUpTo(N) == While(Call("<", <<Var("i"), IntC(N)>>), Block(<<Inc("i", 1)>>))
\* loop { if i == K { break; } i = i + 1; }
LoopUpTo(K) ==
    Loop(Block(<<If(Call("==", <<Var("i"), IntC(K)>>), Break), Inc("i", 1)>>))
\* { let i = 0; <the loop>; i }
FromZero(l) == Block(<<Let("i", IntC(0)), l, ExprS(Var("i"))>>)

\* loop { print("once"); nowhere; } and while true { print("once"); nowhere; }
FailingBody == Block(<<Say("once"), ExprS(Var("nowhere"))>>)
LoopFails == Loop(FailingBody)
WhileFails == While(TrueE, FailingBody)
\* loop { }
Forever == Loop(Block(<<>>))

WhileScripts == { WhileUpTo(N) : N \in 0..MaxCount }
LoopBreakScripts == { LoopUpTo(K) : K \in 0..MaxCount }
LoopScripts ==
    WhileScripts \cup LoopBreakScripts
      \cup { FromZero(l) : l \in WhileScripts \cup LoopBreakScripts }
      \cup { LoopFails, WhileFails, Forever }

NextLoops ==
    \/ \E stmt \in LoopScripts : Eval(stmt)
    \/ Resume
    \/ HostPush("i", "Normal", VInt(0))
    \/ NewScope

SpecLoops == Init /\ [][NextLoops]_vars

\* how often the last evaluation called the host function id
Calls(id) ==
    Cardinality({j \in 1..Len(last.trace) :
                    last.trace[j].ev = "host" /\ last.trace[j].fn = Fn(id)})
\* how often the last evaluation printed text
TimesSaid(text) ==
    Cardinality({j \in 1..Len(last.trace) :
                    last.trace[j].ev = "sink" /\ last.trace[j].text = <<text>>})

\* i before and after the last evaluation; the loop it ran and its count
IBefore == search_scope(last.pre, "i")
IAfter == search_scope(scope, "i")
LastLoop == IF last.stmt.k = "Block" THEN last.stmt.block[2] ELSE last.stmt
Start == IF last.stmt.k = "Block" THEN 0 ELSE IBefore.v.val.v
Runs == IF LastLoop.k = "While"
        THEN (IF LastLoop.guard.args[2].i > Start THEN LastLoop.guard.args[2].i - Start ELSE 0)
        ELSE LastLoop.body.block[1].guard.args[2].i - Start
Counted == last.stmt.k = "Block" \/ IBefore.ok

\* C16: a while loop whose guard is true k times and then false runs its body
\* k times and gives unit; a loop ends when its body breaks (with unit) or
\* fails (with the error), and not otherwise; let i = 0; while i < N { i = i +
\* 1; } ends with i = N and let i = 0; loop { if i == K { break; } i = i + 1; }
\* ends with i = K.
C16_LoopsCount ==
    /\ eval_stmt(Machine(scope, <<>>, MaxFuel), Forever).r.e = "Diverge"
    /\ (pc = "done" /\ last.stmt \in WhileScripts /\ Counted) =>
          /\ Gives(Ok(VUnit))
          /\ Calls("+") = Runs
          /\ Calls("<") = Runs + 1
          /\ IAfter.v.val = VInt(Start + Runs)
    /\ (pc = "done" /\ last.stmt \in LoopBreakScripts /\ Counted) =>
          /\ Gives(Ok(VUnit))
          /\ Calls("+") = Runs
          /\ Calls("==") = Runs + 1
          /\ IAfter.v.val = VInt(LastLoop.body.block[1].guard.args[2].i)
    /\ (pc = "done" /\ last.stmt.k = "Block") =>
          /\ Gives(Ok(VInt(Start + Runs)))
          /\ Calls("+") = Runs
          /\ scope = last.pre
    /\ (pc = "done" /\ last.stmt \in {LoopFails, WhileFails}) =>
          /\ Gives(Err("ErrorVariableNotFound", "nowhere"))
          /\ TimesSaid("once") = 1

\* while i < 4 { i = i + 1; } took the host's i from 0 to 4
C16_Witness ==
    /\ pc = "done"
    /\ last.stmt = WhileUpTo(MaxCount)
    /\ IBefore.ok
    /\ IBefore.v.val = VInt(0)
    /\ IAfter.v.val = VInt(MaxCount)
    /\ Calls("+") = MaxCount

(***************************************************************************)
(* Scripts of the evaluation-order claim: siblings that assign to y, so    *)
(* that the log of writes tells which of them ran, and in which order.     *)
(***************************************************************************)
\* y = n, as an expression
SetY(n) == Assign(Var("y"), IntC(n))
Nowhere == Var("nowhere")

\* g(y = 1, y = 2) and g(y = 1, nowhere, y = 2)
CallInOrder == ExprS(Call("g", <<SetY(1), SetY(2)>>))
CallFails == ExprS(Call("g", <<SetY(1), Nowhere, SetY(2)>>))
\* [y = 1, y = 2] and [y = 1, nowhere, y = 2]
ItemsInOrder == ExprS(ArrayE(<<SetY(1), SetY(2)>>))
ItemsFail == ExprS(ArrayE(<<SetY(1), Nowhere, SetY(2)>>))
\* { y = 1; y = 2; } and { y = 1; nowhere; y = 2; }
StmtsInOrder == Block(<<ExprS(SetY(1)), ExprS(SetY(2))>>)
StmtsFail == Block(<<ExprS(SetY(1)), ExprS(Nowhere), ExprS(SetY(2))>>)
\* a[(y = 1)] = (y = 0)
AssignInOrder == ExprS(Assign(Index(Var("a"), SetY(1)), SetY(0)))

OrderScripts ==
    { CallInOrder, CallFails, ItemsInOrder, ItemsFail, StmtsInOrder, StmtsFail,
      AssignInOrder }

OrderBindings ==
    { Binding("y", "Normal", VInt(0)),
      Binding("a", "Normal", VArr(<<VInt(1), VInt(2)>>)) }

NextOrder ==
    \/ \E stmt \in OrderScripts : Eval(stmt)
    \/ Resume
    \/ \E b \in OrderBindings : HostPush(b.name, b.kind, b.value)
    \/ NewScope

SpecOrder == Init /\ [][NextOrder]_vars

BoundY0 == search_scope(last.pre, "y")
BoundA0 == search_scope(last.pre, "a")

\* the writes into the scope and the host calls of the last evaluation, in the
\* order they happened: the index written and the integer written (-1: no
\* integer), or the number of arguments passed
Brief(e) ==
    CASE e.ev = "write" ->
           [ev |-> "write", at |-> e.idx, n |-> IF e.value.t = "int" THEN e.value.v ELSE -1]
      [] e.ev = "host" -> [ev |-> "host", at |-> -1, n |-> Len(e.args)]
      [] OTHER -> [ev |-> e.ev, at |-> -1, n |-> 0]
Relevant == SelectSeq(last.trace, LAMBDA e : e.ev \in {"write", "host"})
Story == [j \in 1..Len(Relevant) |-> Brief(Relevant[j])]
WroteY(n) == [ev |-> "write", at |-> BoundY0.v.idx, n |-> n]

\* C17: the arguments of a call, the items of an array literal and the
\* statements of a block are evaluated in source order, each once; when one
\* of them fails the later ones are not evaluated, the function is not
\* called and the result is that error; an assignment evaluates its right-hand
\* side once, before the index expression of its left-hand side.
C17_SiblingsInSourceOrder ==
    (pc = "done" /\ BoundY0.ok) =>
        /\ last.stmt = CallInOrder =>
              /\ Story = <<WroteY(1), WroteY(2), [ev |-> "host", at |-> -1, n |-> 2]>>
              /\ Gives(Ok(VInt(202)))
        /\ last.stmt = ItemsInOrder =>
              /\ Story = <<WroteY(1), WroteY(2)>>
              /\ Gives(Ok(VArr(<<VInt(1), VInt(2)>>)))
        /\ last.stmt = StmtsInOrder =>
              /\ Story = <<WroteY(1), WroteY(2)>>
              /\ Gives(Ok(VUnit))
        /\ last.stmt \in {CallFails, ItemsFail, StmtsFail} =>
              /\ Story = <<WroteY(1)>>
              /\ Gives(Err("ErrorVariableNotFound", "nowhere"))
        /\ (last.stmt = AssignInOrder /\ BoundA0.ok) =>
              /\ Story = <<WroteY(0), WroteY(1),
                           [ev |-> "write", at |-> BoundA0.v.idx, n |-> -1]>>
              /\ Gives(Ok(VUnit))
              /\ scope = [last.pre EXCEPT ![BoundY0.v.idx + 1].value = VInt(1),
                                          ![BoundA0.v.idx + 1].value.v[2] = VInt(0)]

\* g(y = 1, nowhere, y = 2) stopped at its second argument, with y = 1
C17_Witness ==
    /\ pc = "done"
    /\ last.stmt = CallFails
    /\ BoundY0.ok
    /\ BoundY0.v.val = VInt(0)
    /\ search_scope(scope, "y").v.val = VInt(1)
    /\ Calls("g") = 0

(***************************************************************************)
(* The engine with script functions loaded, for the claim about            *)
(* clear_functions: no function is defined later on, so that an empty      *)
(* table is a cleared table.                                               *)
(***************************************************************************)
\* the tables that loading up to three definitions leaves
LoadedTables ==
    { load_script_function(load_script_function(load_script_function(<<>>, a), b), c) :
        a \in DispatchFns, b \in DispatchFns, c \in DispatchFns }

InitLoaded ==
    /\ scope = <<>>
    /\ script_functions \in LoadedTables
    /\ ext_functions = CoreKeys
    /\ pc = "idle"
    /\ last = NoCall

NextClear ==
    \/ \E stmt \in DispatchCalls : Eval(stmt)
    \/ Resume
    \/ ClearFunctions
    \/ \E key \in OptionalKeys : RegisterFn(key)

SpecClear == InitLoaded /\ [][NextClear]_vars

\* what a call by name with literal arguments gives now
LiteralValue(e) == IF e.k = "IntegerConstant" THEN VInt(e.i) ELSE VBool(TRUE)
Resolves(c) == eval_stmt(Machine(scope, <<>>, MaxFuel), c)

\* what it gives against the host table alone: the host function of its name
\* and argument types, or else the fallback steps
HostOnly(c) ==
    LET args == [i \in 1..Len(c.expr.args) |-> LiteralValue(c.expr.args[i])]
    IN  IF FnSpec(c.expr.name, args) \in ext_functions
        THEN call_ext_fn(Machine(scope, <<>>, MaxFuel), c.expr.name, args).r
        ELSE call_fallback(c.expr.name, args, None)

\* a step that takes script functions away
Cleared == Len(script_functions') < Len(script_functions)

ElemRead(rhs) == ExprS(Dot(Index(Var("k"), IntC(0)), rhs))
ElemReads ==
    { ElemRead(rhs) :
        rhs \in { Prop("p"), Prop("z"), Call("touch", <<>>), Call("put", <<IntC(5)>>),
                  Call("boom", <<>>) } }

ElemBindings ==
    { Binding("k", kind, Obj1) : kind \in {"Normal", "Constant"} }

NextElem ==
    \/ \E stmt \in ElemReads : Eval(stmt)
    \/ Resume
    \/ \E b \in ElemBindings : HostPush(b.name, b.kind, b.value)
    \/ NewScope

SpecElem == Init /\ [][NextElem]_vars

BoundK == search_scope(last.pre, "k")
\* what the helper does with a copy of k[0], and what it gives
OnElement ==
    get_dot_val_helper(Machine(last.pre, <<>>, MaxFuel), BoundK.v.val.v[1],
                       last.stmt.expr.rhs)

\* C20: k[i].p and k[i].m(args) run on a copy of the element.  With a Normal
\* k the copy, as the getter or method left it, is written back to k[i] and
\* the result of the getter or method is the result; with a Constant k the
\* result is AssignmentToConstant naming k, whatever the getter or method gave,
\* and k is what it was.
C20_ElementRead ==
    (pc = "done" /\ last.stmt \in ElemReads /\ BoundK.ok) =>
        IF BoundK.v.var_type = "Normal"
        THEN /\ SameResult(last.r, OnElement.r)
             /\ scope = [last.pre EXCEPT ![BoundK.v.idx + 1].value.v[1] = OnElement.this]
        ELSE /\ Gives(Err("ErrorAssignmentToConstant", "k"))
             /\ scope = last.pre

\* k[0].touch() left p = 7 in the element of a Normal k
C20_Witness ==
    /\ pc = "done"
    /\ last.stmt = ElemRead(Call("touch", <<>>))
    /\ BoundK.ok
    /\ BoundK.v.var_type = "Normal"
    /\ BoundK.v.val = Obj1
    /\ Gives(Ok(VUnit))
    /\ scope[BoundK.v.idx + 1].value.v[1].v.p = VInt(7)

(***************************************************************************)
(* Scripts of the claim about the scope of a script function: the caller   *)
(* holds x, and the functions assign to their parameter, refer to x, or    *)
(* fail.                                                                   *)
(***************************************************************************)
\* fn f(a) { a = 5; a }, fn g(x) { x = 5; throw; }, fn r() { x },
\* fn h() { let t = 1; nowhere }
CalleeFns ==
    { FnDef("f", <<"a">>, Block(<<ExprS(Assign(Var("a"), IntC(5))), ExprS(Var("a"))>>)),
      FnDef("g", <<"x">>, Block(<<ExprS(Assign(Var("x"), IntC(5))), Throw>>)),
      FnDef("r", <<>>, ExprS(Var("x"))),
      FnDef("h", <<>>, Block(<<Let("t", IntC(1)), ExprS(Var("nowhere"))>>)) }

\* f(x), f(1), x.f(), g(x), x.g(), r(), h()
CallWithX(id) == ExprS(Call(id, <<Var("x")>>))
CallOnX(id) == ExprS(Dot(Var("x"), Call(id, <<>>)))
CalleeCalls ==
    { CallWithX("f"), ExprS(Call("f", <<IntC(1)>>)), CallOnX("f"),
      CallWithX("g"), CallOnX("g"),
      ExprS(Call("r", <<>>)), ExprS(Call("h", <<>>)) }

NextCallee ==
    \/ \E stmt \in CalleeCalls : Eval(stmt)
    \/ Resume
    \/ \E fd \in CalleeFns : DefineFn(fd)
    \/ ClearFunctions
    \/ \E kind \in {"Normal", "Constant"} : HostPush("x", kind, VInt(0))
    \/ NewScope

SpecCallee == Init /\ [][NextCallee]_vars

\* the script function that the last evaluation entered, and the values passed
Entered == last.trace[1]
Passed ==
    IF last.stmt.expr.k = "Dot" \/ last.stmt.expr.args = <<Var("x")>>
    THEN <<search_scope(last.pre, "x").v.val>>
    ELSE [i \in 1..Len(last.stmt.expr.args) |-> LiteralValue(last.stmt.expr.args[i])]

\* C21: the body of a script function runs in a scope of its own that holds
\* its parameters and nothing else, bound as Normal to the arguments in order;
\* a variable of the caller is not found in the body; when the call is over,
\* with a result or with an error, the scope of the caller is what it was,
\* whatever the body assigned to its parameters, for x.f() as for f(x).
C21_CalleeScope ==
    (pc = "done" /\ last.stmt \in CalleeCalls /\ ScriptEvents # {}) =>
        /\ ScriptEvents = {1}
        /\ Entered.scope =
              [i \in 1..Len(Entered.def.params) |->
                  Binding(Entered.def.params[i], "Normal", Passed[i])]
        /\ scope = last.pre
        /\ Entered.fn = Fn("f") => Gives(Ok(VInt(5)))
        /\ Entered.fn = Fn("g") => Gives(Err("ErrorRuntime", <<>>))
        /\ Entered.fn = Fn("r") => Gives(Err("ErrorVariableNotFound", "x"))
        /\ Entered.fn = Fn("h") => Gives(Err("ErrorVariableNotFound", "nowhere"))

\* r() did not find the x of its caller
C21_Witness ==
    /\ pc = "done"
    /\ last.stmt = ExprS(Call("r", <<>>))
    /\ search_scope(last.pre, "x").ok
    /\ ScriptEvents = {1}
    /\ ~last.r.ok

(***************************************************************************)
(* Scripts of the for-in claim: the body hands the loop variable to the    *)
(* host function g, so that the log tells what it was bound to.            *)
(***************************************************************************)
\* { g(i); } and { g(i); if i == 2 { break; } }
Visit == Block(<<ExprS(Call("g", <<Var("i")>>))>>)
VisitUpTo2 ==
    Block(<<ExprS(Call("g", <<Var("i")>>)),
            If(Call("==", <<Var("i"), IntC(2)>>), Break)>>)

\* [], [1], [1, 2], [2, 1], [3, 2, 1] and the variable a
Literal(ns) == ArrayE([j \in 1..Len(ns) |-> IntC(ns[j])])
Iterables ==
    { Literal(ns) : ns \in { <<>>, <<1>>, <<1, 2>>, <<2, 1>>, <<3, 2, 1>> } }
      \cup { Var("a") }
\* 1, "ab", true: values of types without an iterator
NotIterable == { IntC(1), StrC(<<"a", "b">>), TrueE }

ForLoops == { For("i", e, b) : e \in Iterables, b \in {Visit, VisitUpTo2} }
ForNothing == { For("i", e, Visit) : e \in NotIterable }

ForBindings ==
    { Binding("i", "Normal", VInt(0)),
      Binding("a", "Normal", VArr(<<VInt(2), VInt(3)>>)) }

NextFor ==
    \/ \E stmt \in ForLoops \cup ForNothing : Eval(stmt)
    \/ Resume
    \/ \E b \in ForBindings : HostPush(b.name, b.kind, b.value)
    \/ NewScope

SpecFor == Init /\ [][NextFor]_vars

\* the values that the iterator of the last for statement yields
Yielded ==
    IF last.stmt.expr.k = "Variable"
    THEN search_scope(last.pre, "a").v.val.v
    ELSE [j \in 1..Len(last.stmt.expr.items) |-> VInt(last.stmt.expr.items[j].i)]
\* those of them that the body is run for
FirstTwo == CHOOSE j \in 1..Len(Yielded) :
                Yielded[j] = VInt(2) /\ \A h \in 1..(j - 1) : Yielded[h] # VInt(2)
Visited ==
    IF last.stmt.body = VisitUpTo2 /\ \E j \in 1..Len(Yielded) : Yielded[j] = VInt(2)
    THEN SubSeq(Yielded, 1, FirstTwo)
    ELSE Yielded

\* the writes into the scope and the calls of g, in the order they happened
Rounds ==
    SelectSeq(last.trace,
              LAMBDA e : e.ev = "write" \/ (e.ev = "host" /\ e.fn = Fn("g")))

\* C22: for name in expr, over a value whose type has an iterator, binds the
\* loop variable to each yielded value in turn and runs the body once for it,
\* in order; it stops after the run of the body that breaks; it gives unit and
\* leaves the scope as long as it was.  Over a value whose type has no
\* iterator it gives the For error, pushes nothing and runs nothing.
C22_ForIn ==
    /\ (pc = "done" /\ last.stmt \in ForLoops
          /\ (last.stmt.expr.k = "Variable" => search_scope(last.pre, "a").ok)) =>
          /\ Gives(Ok(VUnit))
          /\ scope = last.pre
          /\ Len(Rounds) = 2 * Len(Visited)
          /\ \A j \in 1..Len(Visited) :
                 /\ Rounds[2 * j - 1].ev = "write"
                 /\ Rounds[2 * j - 1].idx = Len(last.pre)
                 /\ Rounds[2 * j - 1].value = Visited[j]
                 /\ Rounds[2 * j].ev = "host"
                 /\ Rounds[2 * j].args = <<Visited[j]>>
    /\ (pc = "done" /\ last.stmt \in ForNothing) =>
          /\ Gives(Err("ErrorFor", ""))
          /\ last.trace = <<>>
          /\ scope = last.pre

\* for i in [3, 2, 1] { g(i); if i == 2 { break; } } ran its body for 3 and 2
C22_Witness ==
    /\ pc = "done"
    /\ last.stmt = For("i", Literal(<<3, 2, 1>>), VisitUpTo2)
    /\ Calls("g") = 2
    /\ Gives(Ok(VUnit))
    /\ scope = last.pre

(***************************************************************************)
(* Scripts of the claim about the shapes of a dot assignment: x is a host  *)
(* object whose property a is the array [[1, 2]].                          *)
(***************************************************************************)
NestedObj == VObj(VInt(0), InnerObj, VArr(<<VArr(<<VInt(1), VInt(2)>>)>>), VStr(<<"a", "b">>))

\* x.a[i][1]
TwoIndices(i) == Index(Index(Prop("a"), i), IntC(1))
\* x.a[i][1] = 8, x.a[i][1].p = 8, x.touch() = 8, x.touch().p = 8
ShapeWrites ==
    { ExprS(Assign(Dot(Var("x"), rhs), IntC(8))) :
        rhs \in { TwoIndices(IntC(0)), TwoIndices(Var("nowhere")),
                  Dot(TwoIndices(IntC(0)), Prop("p")),
                  Call("touch", <<>>),
                  Dot(Call("touch", <<>>), Prop("p")) } }
\* x.a[0][1]
ReadNested == ExprS(Dot(Var("x"), TwoIndices(IntC(0))))

ShapeScripts == ShapeWrites \cup {ReadNested, SetP}

NextShape ==
    \/ \E stmt \in ShapeScripts : Eval(stmt)
    \/ Resume
    \/ \E kind \in {"Normal", "Constant"} : HostPush("x", kind, NestedObj)
    \/ NewScope

SpecShape == Init /\ [][NextShape]_vars

SetterCalled ==
    \E j \in 1..Len(last.trace) :
        last.trace[j].ev = "host" /\ last.trace[j].fn[1] = FUNC_SETTER

\* C23 as stated: a dot assignment of one of these shapes gives the DotExpr
\* error "for assignment", whatever x is bound as.
C23_ShapeErrorWhateverTheRoot ==
    (pc = "done" /\ last.stmt \in ShapeWrites /\ BoundX.ok) =>
        /\ Gives(Err("ErrorDotExpr", <<"for assignment", "">>))
        /\ ~SetterCalled
        /\ scope = last.pre

\* C23: a dot assignment to x.a[i][j], x.a[i][j].b, x.m() or x.m().b calls no
\* setter and leaves x as it was; it gives the DotExpr error "for assignment"
\* when x is Normal and AssignmentToConstant naming x when x is Constant; the
\* read x.a[i][j] gives the element.
C23_UnsupportedShapes ==
    /\ (pc = "done" /\ last.stmt \in ShapeWrites /\ BoundX.ok) =>
          /\ Gives(IF XIsConstant THEN ToConstantX
                   ELSE Err("ErrorDotExpr", <<"for assignment", "">>))
          /\ ~SetterCalled
          /\ scope = last.pre
    /\ (pc = "done" /\ last.stmt = ReadNested /\ BoundX.ok) =>
          Gives(Ok(VInt(2)))

\* x.a[0][1] = 8 was refused for its shape on a Normal x
C23_Witness ==
    /\ pc = "done"
    /\ last.stmt = ExprS(Assign(Dot(Var("x"), TwoIndices(IntC(0))), IntC(8)))
    /\ BoundX.ok
    /\ ~XIsConstant
    /\ last.r.e = "ErrorDotExpr"

(***************************************************************************)
(* Scripts of the claim about string elements: s is a Normal string, x a   *)
(* host object whose property s is a string, both of two characters.       *)
(***************************************************************************)
\* s[i] = v and x.s[i] = v
SetS(i, v) == ExprS(Assign(Index(Var("s"), IntC(i)), v))
SetXS(i, v) == ExprS(Assign(Dot(Var("x"), Index(Prop("s"), IntC(i))), v))
\* 8, true, "c": values that are no characters
NonChars == { IntC(8), TrueE, StrC(<<"c">>) }

NonCharIntoS == { SetS(i, v) : i \in InRange, v \in NonChars }
NonCharIntoXS == { SetXS(i, v) : i \in Indices, v \in NonChars }
CharScripts == NonCharIntoS \cup NonCharIntoXS \cup { WriteS(1) }

CharBindings ==
    { Binding("s", "Normal", VStr(<<"a", "b">>)),
      Binding("x", "Normal", NewObj),
      Binding("x", "Constant", NewObj) }

NextChar ==
    \/ \E stmt \in CharScripts : Eval(stmt)
    \/ Resume
    \/ \E b \in CharBindings : HostPush(b.name, b.kind, b.value)
    \/ NewScope

SpecChar == Init /\ [][NextChar]_vars

\* the getter of the property s handed out the string
GotS ==
    \E j \in 1..Len(last.trace) :
        last.trace[j].ev = "host" /\ last.trace[j].fn = <<FUNC_GETTER, "s">>

\* C24: s[i] = v on a Normal string s, with i inside s and v not a
\* character, and x.s[i] = v, with get$s giving a string and v not a
\* character, give CharMismatch; the scope is what it was and no setter is
\* called.
C24_NotACharacter ==
    ((pc # "idle" /\ last.stmt \in NonCharIntoS /\ search_scope(last.pre, "s").ok)
       \/ (pc # "idle" /\ last.stmt \in NonCharIntoXS /\ GotS)) =>
        /\ pc = "done"
        /\ Gives(Err("ErrorCharMismatch", ""))
        /\ scope = last.pre
        /\ ~SetterCalled

\* x.s[5] = 8 was refused for the value before the index was looked at
C24_Witness ==
    /\ pc = "done"
    /\ last.stmt = SetXS(5, IntC(8))
    /\ GotS
    /\ last.r.e = "ErrorCharMismatch"

(***************************************************************************)
(* Scripts of the claim about the result of a statement: single statements *)
(* and blocks of up to two of them, with y in the scope.                   *)
(***************************************************************************)
\* 3; y; g(1); y = 5; let z = 1; let z; const c = 2;
ValueStmts == { ExprS(IntC(3)), ExprS(Var("y")), ExprS(Call("g", <<IntC(1)>>)) }
UnitStmts ==
    { ExprS(Assign(Var("y"), IntC(5))), Let("z", IntC(1)), LetU("z"), Const("c", IntC(2)) }
PlainStmts == ValueStmts \cup UnitStmts

BlocksOfTwo == { Block(<<s1, s2>>) : s1 \in PlainStmts, s2 \in PlainStmts }
ResultScripts == PlainStmts \cup BlocksOfTwo \cup { Block(<<>>), Noop }

NextResult ==
    \/ \E stmt \in ResultScripts : Eval(stmt)
    \/ Resume
    \/ HostPush("y", "Normal", VInt(0))
    \/ NewScope

SpecResult == Init /\ [][NextResult]_vars

\* the result of the plain statement s in the scope sc: the value of its
\* expression, or unit for an assignment, a let and a const
ResultOf(s, sc) ==
    IF s \in ValueStmts
    THEN eval_expr(Machine(sc, <<>>, MaxFuel), s.expr).r
    ELSE Ok(VUnit)
\* the scope in which the last statement of the block just run was evaluated
BeforeLast == eval_stmt(Machine(last.pre, <<>>, MaxFuel), last.stmt.block[1]).m.scope

\* C25: an expression statement gives unit when the expression is an
\* assignment and the value of the expression otherwise; let and const give
\* unit; a block that succeeds gives what its last statement gave, and unit
\* when it is empty.
C25_StatementResults ==
    (pc = "done" /\ search_scope(last.pre, "y").ok) =>
        /\ last.stmt \in PlainStmts => Gives(ResultOf(last.stmt, last.pre))
        /\ last.stmt \in BlocksOfTwo => Gives(ResultOf(last.stmt.block[2], BeforeLast))
        /\ last.stmt \in { Block(<<>>), Noop } => Gives(Ok(VUnit))
        /\ last.stmt = ExprS(Var("y")) => Gives(Ok(search_scope(last.pre, "y").v.val))
        /\ last.stmt = ExprS(Call("g", <<IntC(1)>>)) => Gives(Ok(VInt(201)))

\* { y = 5; y } gave 5, the value of its last statement
C25_Witness ==
    /\ pc = "done"
    /\ last.stmt = Block(<<ExprS(Assign(Var("y"), IntC(5))), ExprS(Var("y"))>>)
    /\ search_scope(last.pre, "y").ok
    /\ search_scope(last.pre, "y").v.val = VInt(0)
    /\ Gives(Ok(VInt(5)))

(***************************************************************************)
(* Scripts of the claim about guards: the branches and the body print, so  *)
(* that the log tells which of them ran.                                   *)
(***************************************************************************)
\* { print("then"); 1 }, { print("else"); 2 }, { print("body"); break; }
ThenBranch == Block(<<Say("then"), ExprS(IntC(1))>>)
ElseBranch == Block(<<Say("else"), ExprS(IntC(2))>>)
GuardedBody == Block(<<Say("body"), Break>>)

\* true, false, 1, "a", and the variable b
Guards == { TrueE, FalseE, IntC(1), StrC(<<"a">>), Var("b") }

IfScripts ==
    { If(g, ThenBranch) : g \in Guards } \cup { IfElse(g, ThenBranch, ElseBranch) : g \in Guards }
GuardedWhiles == { While(g, GuardedBody) : g \in Guards }
GuardScripts == IfScripts \cup GuardedWhiles

GuardBindings ==
    { Binding("b", "Normal", v) : v \in { VBool(TRUE), VBool(FALSE), VInt(7) } }

NextGuard ==
    \/ \E stmt \in GuardScripts : Eval(stmt)
    \/ Resume
    \/ \E b \in GuardBindings : HostPush(b.name, b.kind, b.value)
    \/ NewScope

SpecGuard == Init /\ [][NextGuard]_vars

\* the value of the guard of the last statement
BoundB == search_scope(last.pre, "b")
GuardValue ==
    CASE last.stmt.guard = TrueE -> VBool(TRUE)
      [] last.stmt.guard = FalseE -> VBool(FALSE)
      [] last.stmt.guard = IntC(1) -> VInt(1)
      [] last.stmt.guard = StrC(<<"a">>) -> VStr(<<"a">>)
      [] OTHER -> BoundB.v.val
GuardKnown == last.stmt.guard # Var("b") \/ BoundB.ok
NothingSaid == \A j \in 1..Len(last.trace) : last.trace[j].ev # "sink"

\* C26: an if or a while whose guard is not a boolean gives the IfGuard
\* error and runs neither a branch nor the body; an if whose guard is a
\* boolean runs the then-branch when it is true and the else-branch when it is
\* false, never both, and gives unit when it is false and there is no
\* else-branch.
C26_Guards ==
    (pc = "done" /\ last.stmt \in GuardScripts /\ GuardKnown) =>
        IF GuardValue.t # "bool"
        THEN /\ Gives(Err("ErrorIfGuard", ""))
             /\ NothingSaid
             /\ scope = last.pre
        ELSE IF last.stmt \in GuardedWhiles
        THEN /\ Gives(Ok(VUnit))
             /\ TimesSaid("body") = (IF GuardValue.v THEN 1 ELSE 0)
        ELSE IF GuardValue.v
        THEN /\ Gives(Ok(VInt(1)))
             /\ TimesSaid("then") = 1 /\ TimesSaid("else") = 0
        ELSE IF IsSome(last.stmt.else)
        THEN /\ Gives(Ok(VInt(2)))
             /\ TimesSaid("then") = 0 /\ TimesSaid("else") = 1
        ELSE /\ Gives(Ok(VUnit))
             /\ NothingSaid

\* if b { ... } else { ... } with b = 7 ran neither branch
C26_Witness ==
    /\ pc = "done"
    /\ last.stmt = IfElse(Var("b"), ThenBranch, ElseBranch)
    /\ BoundB.ok
    /\ BoundB.v.val = VInt(7)
    /\ last.r.e = "ErrorIfGuard"
    /\ NothingSaid

(***************************************************************************)
(* Scripts of the throw claim: a throw at top level, inside a block, a     *)
(* loop of each kind, and inside the script function r.                    *)
(***************************************************************************)
\* nothing, 1, true, "e", nowhere, and the variable t
Thrown ==
    { None, Some(IntC(1)), Some(TrueE), Some(StrC(<<"e">>)), Some(Var("nowhere")),
      Some(Var("t")) }
ThrowOf(t) == IF t = None THEN Throw ELSE ThrowV(t[1])

Around == { "alone", "block", "loop", "while", "for" }
Wrapped(w, t) ==
    CASE w = "alone" -> ThrowOf(t)
      [] w = "block" -> Block(<<Block(<<ThrowOf(t)>>)>>)
      [] w = "loop"  -> Loop(Block(<<ThrowOf(t)>>))
      [] w = "while" -> While(TrueE, Block(<<ThrowOf(t)>>))
      [] w = "for"   -> For("i", Literal(<<1, 2>>), Block(<<ThrowOf(t)>>))

\* fn r() { throw ... }
Throwers == { FnDef("r", <<>>, Block(<<ThrowOf(t)>>)) : t \in Thrown }
\* r() and loop { r(); }
ThrowerCalls == { ExprS(CallR), Loop(Block(<<ExprS(CallR)>>)) }

ThrowScripts == { Wrapped(w, t) : w \in Around, t \in Thrown } \cup ThrowerCalls

ThrowBindings ==
    { Binding("t", "Normal", v) : v \in { VStr(<<"m">>), VInt(3) } }

NextThrow ==
    \/ \E stmt \in ThrowScripts : Eval(stmt)
    \/ Resume
    \/ \E fd \in Throwers : DefineFn(fd)
    \/ ClearFunctions
    \/ \E b \in ThrowBindings : HostPush(b.name, b.kind, b.value)
    \/ NewScope

SpecThrow == Init /\ [][NextThrow]_vars

\* what throwing t in the scope sc raises
Raised(t, sc) ==
    IF t = None THEN Err("ErrorRuntime", <<>>)
    ELSE CASE t[1].k = "StringConstant" -> Err("ErrorRuntime", t[1].s)
           [] t[1].k = "Variable" ->
                LET s == search_scope(sc, t[1].id)
                IN  IF ~s.ok THEN Err("ErrorVariableNotFound", t[1].id)
                    ELSE IF s.v.val.t = "string" THEN Err("ErrorRuntime", s.v.val.v)
                    ELSE Err("ErrorRuntime", <<>>)
           [] OTHER -> Err("ErrorRuntime", <<>>)

\* C27: throw raises Runtime with the empty message, throw v with v not a
\* string raises Runtime with the empty message, throw s with s a string
\* raises Runtime with the message s, and when the thrown expression fails its
\* error is the result; no block, loop or script function catches what was
\* raised: it is the result of the evaluation.
C27_ThrowReachesTheTop ==
    /\ \A w \in Around, t \in Thrown :
           (pc = "done" /\ last.stmt = Wrapped(w, t)) => Gives(Raised(t, last.pre))
    /\ \A t \in Thrown :
           (pc = "done" /\ last.stmt \in ThrowerCalls /\ ScriptEvents # {}
              /\ Entered.def.body = Block(<<ThrowOf(t)>>)) =>
               Gives(Raised(t, <<>>))

\* loop { r(); } ended with the Runtime error "e" that r threw
C27_Witness ==
    /\ pc = "done"
    /\ last.stmt = Loop(Block(<<ExprS(CallR)>>))
    /\ ScriptEvents = {1}
    /\ Gives(Err("ErrorRuntime", <<"e">>))

(***************************************************************************)
(* Scripts of the claim about the writeback of an element: a is a Normal   *)
(* array of two host objects, and the arguments of the method called on    *)
(* a[1] may assign to a.                                                   *)
(***************************************************************************)
TwoObjs == VArr(<<NewObj, NewObj>>)

\* a[1].rhs
OnSecond(rhs) == Dot(Index(Var("a"), IntC(1)), rhs)
\* { a = [new_ts()]; 5 }: shortens a to one element, and is 5
ShortenA ==
    StmtE(Block(<<ExprS(Assign(Var("a"), ArrayE(<<Call("new_ts", <<>>)>>))),
                  ExprS(IntC(5))>>))
\* a = 5: makes a an integer, and is 5
RetypeA == Assign(Var("a"), IntC(5))

\* a[1].p, a[1].touch(), a[1].put(5), a[1].p = 8
SteadyChains ==
    { ExprS(OnSecond(Prop("p"))), ExprS(OnSecond(Call("touch", <<>>))),
      ExprS(OnSecond(Call("put", <<IntC(5)>>))),
      ExprS(Assign(OnSecond(Prop("p")), IntC(8))) }
\* a[1].put({ a = [new_ts()]; 5 }), a[1].put(a = 5)
StaleChains ==
    { ExprS(OnSecond(Call("put", <<ShortenA>>))),
      ExprS(OnSecond(Call("put", <<RetypeA>>))) }
ElementChains == SteadyChains \cup StaleChains

NextStale ==
    \/ \E stmt \in ElementChains : Eval(stmt)
    \/ Resume
    \/ HostPush("a", "Normal", TwoObjs)
    \/ NewScope

SpecStale == Init /\ [][NextStale]_vars

\* C28: the evaluation of a[i].m(args), a[i].p and a[i].p = v on a Normal
\* array a never aborts: the element is written back into an element that a
\* has, also when args changed a after the element was looked up.
C28_WritebackNeverAborts ==
    (last.stmt \in ElementChains /\ search_scope(last.pre, "a").ok) => pc # "aborted"

(***************************************************************************)
(* Scripts of the claim about the receiver of a method call: x is a Normal *)
(* host object, and the argument of x.put(...) writes to x before it       *)
(* gives 5.                                                                *)
(***************************************************************************)
\* x = 5, x.touch(), x.p = 8, x.o.p = 8
WritesToX ==
    { Assign(Var("x"), IntC(5)),
      Dot(Var("x"), Call("touch", <<>>)),
      Assign(Dot(Var("x"), Prop("p")), IntC(8)),
      Assign(Dot(Var("x"), Dot(Prop("o"), Prop("p"))), IntC(8)) }
\* x.put({ e; 5 })
PutAfter(e) ==
    ExprS(Dot(Var("x"), Call("put", <<StmtE(Block(<<ExprS(e), ExprS(IntC(5))>>))>>)))

ReceiverScripts == { PutAfter(e) : e \in WritesToX }
\* x.touch(), x.p
ReceiverAlone == { ExprS(Dot(Var("x"), Call("touch", <<>>))), ExprS(Dot(Var("x"), Prop("p"))) }

NextReceiver ==
    \/ \E stmt \in ReceiverScripts \cup ReceiverAlone : Eval(stmt)
    \/ Resume
    \/ HostPush("x", "Normal", NewObj)
    \/ NewScope

SpecReceiver == Init /\ [][NextReceiver]_vars

\* the writes into the slot of x during the last evaluation
WritesIntoX ==
    SelectSeq(last.trace, LAMBDA e : e.ev = "write" /\ e.idx = BoundX.v.idx)

\* C29: in x.put(args) the copy of x that put works on is taken before args
\* is evaluated, and is stored in x when put is done: x is then that copy with
\* what put did to it, and what args wrote to x in between is gone.
C29_ReceiverCopiedFirst ==
    (pc = "done" /\ last.stmt \in ReceiverScripts /\ BoundX.ok) =>
        /\ Gives(Ok(VInt(5)))
        /\ Len(WritesIntoX) = 2
        /\ scope = [last.pre EXCEPT ![BoundX.v.idx + 1].value.v.p = VInt(5)]

\* x.put({ x.o.p = 8; 5 }) left x.o.p at 0
C29_Witness ==
    /\ pc = "done"
    /\ last.stmt = PutAfter(Assign(Dot(Var("x"), Dot(Prop("o"), Prop("p"))), IntC(8)))
    /\ BoundX.ok
    /\ Len(WritesIntoX) = 2
    /\ WritesIntoX[1].value.v.o.v.p = VInt(8)
    /\ scope[BoundX.v.idx + 1].value.v.o.v.p = VInt(0)

(***************************************************************************)
(* Scripts of the claim about plain assignment: the host has pushed        *)
(* bindings named x, which shadow one another, and y.                      *)
(***************************************************************************)
\* x = 3 and { { x = 4; } }
AssignX(n) == ExprS(Assign(Var("x"), IntC(n)))
AssignAtTop == AssignX(3)
AssignInBlocks == Block(<<Block(<<AssignX(4)>>)>>)
\* { let x = 1; x = 9; }: the assignment goes to the x of the block
AssignToInner == Block(<<Let("x", IntC(1)), AssignX(9)>>)
\* q = 3, with no q anywhere
AssignUnbound == ExprS(Assign(Var("q"), IntC(3)))

PlainAssigns == { AssignAtTop, AssignInBlocks, AssignToInner, AssignUnbound }

PlainBindings ==
    { Binding("x", "Normal", VInt(0)), Binding("x", "Constant", VInt(0)),
      Binding("y", "Normal", VInt(0)) }

NextAssign ==
    \/ \E stmt \in PlainAssigns : Eval(stmt)
    \/ Resume
    \/ \E b \in PlainBindings : HostPush(b.name, b.kind, b.value)
    \/ NewScope

SpecAssign == Init /\ [][NextAssign]_vars

\* the position in the scope of the binding named x that was pushed last
HasX == \E i \in 1..Len(last.pre) : last.pre[i].name = "x"
NewestX ==
    CHOOSE i \in 1..Len(last.pre) :
        last.pre[i].name = "x" /\ \A j \in (i + 1)..Len(last.pre) : last.pre[j].name # "x"
AssignedX == IF last.stmt = AssignAtTop THEN VInt(3) ELSE VInt(4)

\* C30: a plain assignment x = v that succeeds stores v in the binding named
\* x that was pushed last, and leaves the length of the scope, every other
\* binding and every earlier binding named x as they were; made inside nested
\* blocks to a binding from outside, it is still there after the blocks; to a
\* name without a binding it gives VariableNotFound and changes nothing.
C30_PlainAssignment ==
    /\ (pc = "done" /\ last.stmt \in {AssignAtTop, AssignInBlocks} /\ HasX) =>
          IF last.pre[NewestX].kind = "Normal"
          THEN /\ Gives(Ok(VUnit))
               /\ scope = [last.pre EXCEPT ![NewestX].value = AssignedX]
          ELSE /\ ~last.r.ok
               /\ scope = last.pre
    /\ (pc = "done" /\ last.stmt = AssignToInner) =>
          /\ Gives(Ok(VUnit))
          /\ scope = last.pre
    /\ (pc = "done" /\ last.stmt = AssignUnbound) =>
          /\ Gives(Err("ErrorVariableNotFound", "q"))
          /\ scope = last.pre

\* { { x = 4; } } changed the newer of two bindings named x, and the older kept
\* its value
C30_Witness ==
    /\ pc = "done"
    /\ last.stmt = AssignInBlocks
    /\ Len(last.pre) = 3
    /\ last.pre[1].name = "x" /\ last.pre[2].name = "x" /\ last.pre[3].name = "y"
    /\ last.pre[2].kind = "Normal"
    /\ scope[1].value = last.pre[1].value
    /\ scope[2].value = VInt(4)

(***************************************************************************)
(* Scripts of the claim about the source of a for-in: the body assigns to  *)
(* the variable a that the loop runs over, or to the loop variable.        *)
(***************************************************************************)
GivesI == ExprS(Call("g", <<Var("i")>>))
\* { print("source"); a }
SaidSource == StmtE(Block(<<Say("source"), ExprS(Var("a"))>>))

\* for i in a { g(i); a = [9]; } and for i in a { g(i); a = 5; }
ForShrinking == For("i", Var("a"), Block(<<GivesI, ExprS(Assign(Var("a"), Literal(<<9>>)))>>))
ForRetyping == For("i", Var("a"), Block(<<GivesI, ExprS(Assign(Var("a"), IntC(5)))>>))
\* for i in { print("source"); a } { g(i); i = 7; g(i); }
ForAssigningI ==
    For("i", SaidSource, Block(<<GivesI, ExprS(Assign(Var("i"), IntC(7))), GivesI>>))

SourceScripts == { ForShrinking, ForRetyping, ForAssigningI }

NextSource ==
    \/ \E stmt \in SourceScripts : Eval(stmt)
    \/ Resume
    \/ HostPush("a", "Normal", VArr(<<VInt(1), VInt(2)>>))
    \/ NewScope

SpecSource == Init /\ [][NextSource]_vars

\* the array that a held when the statement began
SourceA == search_scope(last.pre, "a")
IsArrayA == SourceA.ok /\ SourceA.v.val.t = "array"
\* what g was given, call by call
GivenToG ==
    LET calls == SelectSeq(last.trace, LAMBDA e : e.ev = "host" /\ e.fn = Fn("g"))
    IN  [j \in 1..Len(calls) |-> calls[j].args[1]]
\* each value of the sequence vs followed by 7
EachThen7(vs) == [j \in 1..(2 * Len(vs)) |-> IF j % 2 = 1 THEN vs[(j + 1) \div 2] ELSE VInt(7)]

\* C31: for name in expr evaluates expr once, before the first iteration,
\* and runs over the value it gave: what the body assigns to the variable
\* that expr read changes neither the number nor the values of the iterations
\* to come, and what the body assigns to the loop variable is replaced by the
\* next value when the next iteration starts.
C31_ForSourceOnce ==
    (pc = "done" /\ last.stmt \in SourceScripts /\ IsArrayA) =>
        /\ Gives(Ok(VUnit))
        /\ last.stmt = ForShrinking =>
              /\ GivenToG = SourceA.v.val.v
              /\ scope = [last.pre EXCEPT ![SourceA.v.idx + 1].value = VArr(<<VInt(9)>>)]
        /\ last.stmt = ForRetyping =>
              /\ GivenToG = SourceA.v.val.v
              /\ scope = [last.pre EXCEPT ![SourceA.v.idx + 1].value = VInt(5)]
        /\ last.stmt = ForAssigningI =>
              /\ GivenToG = EachThen7(SourceA.v.val.v)
              /\ TimesSaid("source") = 1
              /\ scope = last.pre

\* for i in a { g(i); a = [9]; } ran for 1 and for 2 although a was [9] after
\* the first run of the body
C31_Witness ==
    /\ pc = "done"
    /\ last.stmt = ForShrinking
    /\ IsArrayA
    /\ SourceA.v.val = VArr(<<VInt(1), VInt(2)>>)
    /\ GivenToG = <<VInt(1), VInt(2)>>
    /\ search_scope(scope, "a").v.val = VArr(<<VInt(9)>>)

====
